---- MODULE Spec2Model ----
(***************************************************************************)
(* Meowzon OCR extractor: the per-file extraction pipeline                 *)
(* (MeowzonExtractor.process_single_file), the escalation policy and the   *)
(* field merge, the batch drivers (sequential and parallel), the duplicate *)
(* pass, the AI providers' retry loop and the crop search.                 *)
(*                                                                         *)
(* Specifications:                                                         *)
(*   Spec           one extractor processing one file, step by step        *)
(*   SpecEscalation _should_use_ai applied to bounded inputs               *)
(*   SpecMerge      _merge_results applied to bounded inputs               *)
(*   SpecBatch      run(): process_files, duplicate pass, output           *)
(*   SpecProvider   AIProvider.extract retry loop                          *)
(*   SpecCrop       ImageProcessor.find_best_crop                          *)
(*   SpecConfidence DataValidator.calculate_confidence on bounded inputs   *)
(*   SpecDuplicates DuplicateDetector functions on a frame of records      *)
(*   SpecOcr        OCREngine._ocr_with_confidence on engine outputs        *)
(*   SpecItems      DataExtractor.extract_items on texts of characters      *)
(***************************************************************************)
EXTENDS Integers, Sequences, FiniteSets, TLC

VARIABLES
    config,        \* ExtractorConfig fields the pipeline reads
    ai_processor,  \* MeowzonExtractor.ai_processor: "None" or the provider name
    pc,            \* position of the one-file pipeline
    file,          \* attributes of the file handed to process_single_file
    ocr_text,      \* text returned by find_best_crop
    ocr_conf,      \* confidence returned by find_best_crop
    local_fields,  \* extract_all(ocr_text), kept as computed
    extracted,     \* the local variable `extracted` (merged in place)
    use_ai,        \* the local variable `use_ai`
    ai_ret,        \* what ai_processor.extract returned: <<ai_data, ai_status>>
    ai_used,       \* the local variable `ai_used`
    temp_exists,   \* the temporary image exists on disk
    trace,         \* the collaborators called so far, in call order
    env,           \* the machine: is tesseract installed, can the provider be built
    result,        \* the dictionary returned by process_single_file
    args,          \* inputs of a pure function under test
    ret,           \* its result
    bpc,           \* position of run()
    outcome,       \* per file: what process_single_file does for it
    todo,          \* files not yet handed to process_single_file / not completed
    results,       \* the list `results` of process_files
    output,        \* the rows written by the output handler
    exit_code,     \* return value of main
    prov,          \* provider under test and its max_retries
    attempt,       \* loop variable of extract
    requests,      \* requests issued so far
    sleeps,        \* arguments of time.sleep so far
    tries,         \* outcome of every attempt made so far
    ppc,           \* position of extract
    pret,          \* what extract returned
    crop,          \* find_best_crop inputs: threshold and image size
    cidx,          \* index of the next crop strategy
    attempts,      \* recognition attempts evaluated so far
    score,         \* the local variable `score`
    best,          \* best_text / best_conf / best_crop_params
    cpc            \* position of find_best_crop

fileVars  == <<config, ai_processor, pc, file, ocr_text, ocr_conf, local_fields,
               extracted, use_ai, ai_ret, ai_used, temp_exists, trace, result, env>>
pureVars  == <<args, ret>>
batchVars == <<bpc, outcome, todo, results, output, exit_code>>
provVars  == <<prov, attempt, requests, sleeps, tries, ppc, pret>>
cropVars  == <<crop, cidx, attempts, score, best, cpc>>
vars      == <<fileVars, pureVars, batchVars, provVars, cropVars>>

None   == "None"                 \* None where a string is expected
NoDict == ("None" :> "None")     \* None where a dictionary is expected
NaN    == <<"nan">>              \* a missing cell of a text column
NotExited == -1                  \* main has not returned

\* ------------------------------------------------------------------------
\* Bounds
\* ------------------------------------------------------------------------
MaxLines == 2        \* lines of a recognised text

\* ------------------------------------------------------------------------
\* Field sets
\* ------------------------------------------------------------------------
FieldKeys == {"order_ids", "prices", "dates", "totals", "quantities",
              "sellers", "tracking_numbers", "items"}

EmptyFields == [k \in FieldKeys |-> <<>>]

Range(s) == {s[i] : i \in 1..Len(s)}

RECURSIVE SeqsOver(_, _)
SeqsOver(S, n) ==
    IF n = 0 THEN {<<>>}
    ELSE LET shorter == SeqsOver(S, n - 1)
         IN  shorter \cup {Append(s, e) : s \in {t \in shorter : Len(t) = n - 1}, e \in S}

\* Recognised text: a sequence of lines, each line carrying one datum.
OrderIdA == "111-1111111-1111111"
OrderIdB == "222-2222222-2222222"
Lines == {<<"order_ids", OrderIdA>>, <<"order_ids", OrderIdB>>,
          <<"items", "Stainless Steel Widget">>,
          <<"totals", "$12.50">>,
          <<"tracking_numbers", "1Z999AA10123456784">>}
Texts == SeqsOver(Lines, MaxLines)

\* re.findall over the text for one field, in text order.
RECURSIVE findall(_, _)
findall(key, text) ==
    IF text = <<>> THEN <<>>
    ELSE LET l == Head(text)
             hit == \/ l[1] = key
                    \/ key = "prices" /\ l[1] = "totals"
         IN  (IF hit THEN <<l[2]>> ELSE <<>>) \o findall(key, Tail(text))

\* The orders in which list(set(xs)) can come out.
Orderings(xs) ==
    {s \in SeqsOver(Range(xs), Cardinality(Range(xs))) :
        Len(s) = Cardinality(Range(xs)) /\ Range(s) = Range(xs)}

RECURSIVE unique(_, _)
unique(xs, seen) ==
    IF xs = <<>> THEN <<>>
    ELSE IF Head(xs) \in seen THEN unique(Tail(xs), seen)
    ELSE <<Head(xs)>> \o unique(Tail(xs), seen \cup {Head(xs)})

\* DataExtractor.extract_all: the field sets it can return for a text.
extract_all(text) ==
    {[k \in FieldKeys |->
        CASE k = "order_ids"        -> o
          [] k = "sellers"          -> s
          [] k = "tracking_numbers" -> t
          [] k = "items"            -> unique(findall(k, text), {})
          [] OTHER                  -> findall(k, text)] :
      o \in Orderings(findall("order_ids", text)),
      s \in Orderings(findall("sellers", text)),
      t \in Orderings(findall("tracking_numbers", text))}

\* ------------------------------------------------------------------------
\* Configuration
\* ------------------------------------------------------------------------
AIModes    == {"never", "hybrid", "always"}
Providers  == {"ollama", "openai", "claude", "gemini"}
Thresholds == {0, 70, 100}


MAX_IMAGE_SIZE_MB == 50
MIN_SIDE == 100
MAX_SIDE == 10000
MaxBytes == MAX_IMAGE_SIZE_MB * 1024 * 1024

ProviderLabel(p) ==
    CASE p = "ollama" -> "Ollama"
      [] p = "openai" -> "OpenAI"
      [] p = "claude" -> "Claude"
      [] p = "gemini" -> "Gemini"

\* ------------------------------------------------------------------------
\* ImageValidator
\* ------------------------------------------------------------------------
lower(suffix) ==
    CASE suffix = ".JPG" -> ".jpg"
      [] suffix = ".PNG" -> ".png"
      [] OTHER -> suffix

valid_extensions == {".png", ".jpg", ".jpeg", ".bmp", ".tiff", ".webp"}

\* validate_file: None, or the error message
validate_file(f) ==
    IF ~f.exists THEN "File not found"
    ELSE IF f.size > MaxBytes THEN "File too large"
    ELSE IF lower(f.suffix) \notin valid_extensions THEN "Unsupported file format"
    ELSE None

validate_image_mut_no_upper(f) ==
    IF f.imread = "None" THEN "Failed to load image (corrupted or unsupported format)"
    ELSE IF f.height < MIN_SIDE \/ f.width < MIN_SIDE THEN "Image too small"
    ELSE None

\* validate_image: None, or the error message
validate_image(f) ==
    IF f.imread = "None" THEN "Failed to load image (corrupted or unsupported format)"
    ELSE IF f.height < MIN_SIDE \/ f.width < MIN_SIDE THEN "Image too small"
    ELSE IF f.height > MAX_SIDE \/ f.width > MAX_SIDE THEN "Image too large"
    ELSE None

\* load_and_validate: the error message, None when the image is returned
load_and_validate(f) ==
    IF validate_file(f) # None THEN validate_file(f)
    ELSE IF f.imread = "raises" THEN "Error loading image"
    ELSE validate_image(f)

GoodFile == [name |-> "a.png", exists |-> TRUE, size |-> 1024, suffix |-> ".png",
             imread |-> "image", height |-> MIN_SIDE, width |-> MIN_SIDE]

\* Files handed to process_single_file: loadable ones at the limits, and
\* one file per way of failing.
FileAttrs ==
    { GoodFile,
      [GoodFile EXCEPT !.size = MaxBytes, !.suffix = ".JPG",
                       !.height = MAX_SIDE, !.width = MAX_SIDE],
      [GoodFile EXCEPT !.exists = FALSE],
      [GoodFile EXCEPT !.size = MaxBytes + 1],
      [GoodFile EXCEPT !.suffix = ".gif"],
      [GoodFile EXCEPT !.imread = "None"],
      [GoodFile EXCEPT !.imread = "raises"],
      [GoodFile EXCEPT !.height = MIN_SIDE - 1],
      [GoodFile EXCEPT !.width = MIN_SIDE - 1],
      [GoodFile EXCEPT !.height = MAX_SIDE + 1],
      [GoodFile EXCEPT !.width = MAX_SIDE + 1] }

\* ------------------------------------------------------------------------
\* Escalation policy and merge
\* ------------------------------------------------------------------------
truthy(xs) == xs # <<>>

\* dict.get(key, default)
get(d, key, default) == IF key \in DOMAIN d THEN d[key] ELSE default

_should_use_ai_mut_le(cfg, extr, conf) ==
    IF cfg.ai_mode = "always" THEN TRUE
    ELSE IF cfg.ai_mode = "never" THEN FALSE
    ELSE IF conf <= cfg.tesseract_confidence_threshold THEN TRUE
    ELSE IF ~truthy(get(extr, "order_ids", <<>>)) THEN TRUE
    ELSE IF ~truthy(get(extr, "items", <<>>)) THEN TRUE
    ELSE FALSE

_should_use_ai(cfg, extr, conf) ==
    IF cfg.ai_mode = "always" THEN TRUE
    ELSE IF cfg.ai_mode = "never" THEN FALSE
    ELSE IF conf < cfg.tesseract_confidence_threshold THEN TRUE
    ELSE IF ~truthy(get(extr, "order_ids", <<>>)) THEN TRUE
    ELSE IF ~truthy(get(extr, "items", <<>>)) THEN TRUE
    ELSE FALSE

_merge_results_mut_union(ocr_data, ai_data) ==
    [key \in DOMAIN ocr_data |->
        get(ai_data, key, <<>>) \o get(ocr_data, key, <<>>)]

_merge_results(ocr_data, ai_data) ==
    [key \in DOMAIN ocr_data |->
        LET ai_values  == get(ai_data, key, <<>>)
            ocr_values == get(ocr_data, key, <<>>)
        IN  IF truthy(ai_values) THEN ai_values
            ELSE IF truthy(ocr_values) THEN ocr_values
            ELSE <<>>]


\* ------------------------------------------------------------------------
\* DataValidator
\* ------------------------------------------------------------------------
OrderIdAI  == "333-3333333-3333333"

\* strings matching ^\d{3}-\d{7}-\d{7}$
ValidOrderIds == {OrderIdA, OrderIdB, OrderIdAI}

validate_order_id(order_id) == order_id \in ValidOrderIds

Min(a, b) == IF a < b THEN a ELSE b

\* variant: 5 points per item without the cap of 20
calculate_confidence_mut_no_cap(extracted_data, ocr_confidence) ==
    LET base  == ocr_confidence * 4
        idpts == IF truthy(get(extracted_data, "order_ids", <<>>))
                    /\ validate_order_id(extracted_data["order_ids"][1])
                 THEN 250 ELSE 0
        items == IF truthy(get(extracted_data, "items", <<>>))
                 THEN 10 * (Len(extracted_data["items"]) * 5) ELSE 0
        tot   == IF truthy(get(extracted_data, "totals", <<>>)) THEN 100 ELSE 0
        dat   == IF truthy(get(extracted_data, "dates", <<>>)) THEN 50 ELSE 0
    IN  Min(base + idpts + items + tot + dat, 1000)

\* calculate_confidence, in tenths of a point
calculate_confidence(extracted_data, ocr_confidence) ==
    LET base  == ocr_confidence * 4
        idpts == IF truthy(get(extracted_data, "order_ids", <<>>))
                    /\ validate_order_id(extracted_data["order_ids"][1])
                 THEN 250 ELSE 0
        items == IF truthy(get(extracted_data, "items", <<>>))
                 THEN 10 * Min(Len(extracted_data["items"]) * 5, 20) ELSE 0
        tot   == IF truthy(get(extracted_data, "totals", <<>>)) THEN 100 ELSE 0
        dat   == IF truthy(get(extracted_data, "dates", <<>>)) THEN 50 ELSE 0
    IN  Min(base + idpts + items + tot + dat, 1000)

\* ------------------------------------------------------------------------
\* AI adapter, as process_single_file sees it
\* ------------------------------------------------------------------------
AIKeys == {"order_ids", "items", "totals"}

AIValue(k) ==
    CASE k = "order_ids" -> OrderIdAI
      [] k = "items"     -> "AI Widget"
      [] k = "totals"    -> "$99.00"
      [] OTHER           -> "ai " \o k

\* bool(value) of a JSON value [t: null | str | list | dict, v: its content]
jtruthy(j) ==
    CASE j.t = "null" -> FALSE
      [] j.t = "str"  -> j.v # ""
      [] j.t = "list" -> j.v # <<>>
      [] j.t = "dict" -> DOMAIN j.v # {}

\* dict.get(key), None when the key is missing
jget(d, key) == IF key \in DOMAIN d THEN d[key] ELSE [t |-> "null"]

\* the objects a model's reply can parse to: every key may be missing
JSONObjects ==
    LET Optional(key, vals) == {<<>>} \cup {key :> x : x \in vals}
        str(x) == [t |-> "str", v |-> x]
        list(xs) == [t |-> "list", v |-> xs]
        dict(d) == [t |-> "dict", v |-> d]
    IN  {o @@ t @@ i :
            o \in Optional("order_id", {[t |-> "null"], str(""), str(AIValue("order_ids"))}),
            t \in Optional("total", {str(AIValue("totals"))}),
            i \in Optional("items",
                    {str("n/a"), list(<<>>), list(<<str("loose text")>>),
                     list(<<dict("name" :> str(AIValue("items")))>>),
                     list(<<dict("name" :> [t |-> "null"])>>)})}

\* the values of one key over the dictionaries of the items list
RECURSIVE ItemValues(_, _)
ItemValues(items, key) ==
    IF items = <<>> THEN <<>>
    ELSE (IF Head(items).t = "dict" /\ jtruthy(jget(Head(items).v, key))
          THEN <<jget(Head(items).v, key).v>> ELSE <<>>)
            \o ItemValues(Tail(items), key)

\* variant: only the fields the reply mentions get a key
_normalize_to_lists_mut_sparse(data) ==
    LET one(key) == IF jtruthy(jget(data, key)) THEN <<jget(data, key).v>> ELSE <<>>
        items_data == IF "items" \in DOMAIN data THEN data["items"]
                      ELSE [t |-> "list", v |-> <<>>]
        items == IF items_data.t = "list" THEN items_data.v ELSE <<>>
        full == [k \in FieldKeys |->
                   CASE k = "order_ids" -> one("order_id")
                     [] k = "totals"    -> one("total")
                     [] k = "items"     -> ItemValues(items, "name")
                     [] OTHER           -> <<>>]
    IN  [k \in {q \in FieldKeys : full[q] # <<>>} |-> full[k]]

\* AIProvider._normalize_to_lists
_normalize_to_lists(data) ==
    LET one(key) == IF jtruthy(jget(data, key)) THEN <<jget(data, key).v>> ELSE <<>>
        items_data   == IF "items" \in DOMAIN data THEN data["items"]
                        ELSE [t |-> "list", v |-> <<>>]
        items        == IF items_data.t = "list" THEN items_data.v ELSE <<>>
        other_prices == IF "other_prices" \in DOMAIN data THEN data["other_prices"]
                        ELSE [t |-> "list", v |-> <<>>]
        others       == IF other_prices.t = "list" THEN other_prices.v ELSE <<>>
        \* [str(p) for p in other_prices if p]
        RECURSIVE TruthyValues(_)
        TruthyValues(xs) ==
            IF xs = <<>> THEN <<>>
            ELSE (IF jtruthy(Head(xs)) THEN <<Head(xs).v>> ELSE <<>>)
                    \o TruthyValues(Tail(xs))
    IN  [k \in FieldKeys |->
            CASE k = "order_ids"        -> one("order_id")
              [] k = "dates"            -> one("order_date")
              [] k = "totals"           -> one("total")
              [] k = "sellers"          -> one("seller")
              [] k = "tracking_numbers" -> one("tracking_number")
              [] k = "items"            -> ItemValues(items, "name")
              [] k = "quantities"       -> ItemValues(items, "quantity")
              [] k = "prices"           -> ItemValues(items, "price") \o TruthyValues(others)]

\* normalised field sets an adapter returns on success
AIFieldSets == {_normalize_to_lists(d) : d \in JSONObjects}

SuccessStatus(p) == ProviderLabel(p) \o " Success"

AuthStatus(p) ==
    CASE p = "openai" -> "OpenAI Auth Error (check OPENAI_API_KEY)"
      [] p = "claude" -> "Claude Auth Error (check ANTHROPIC_API_KEY)"
      [] p = "gemini" -> "Gemini Auth Error (check GOOGLE_API_KEY)"
      [] OTHER        -> None

ParseFailedStatus(p) == ProviderLabel(p) \o " JSON Parse Failed"
ErrorStatus(p)       == ProviderLabel(p) \o " Error: ..."
AfterRetriesStatus(p) == ProviderLabel(p) \o " Failed After Retries"
OllamaNotRunning == "Ollama Not Running (start with 'ollama serve')"
OllamaTimeout    == "Ollama Timeout"

FailureStatuses(p) ==
    {ParseFailedStatus(p), ErrorStatus(p), AfterRetriesStatus(p)}
        \cup (IF p = "ollama" THEN {OllamaNotRunning, OllamaTimeout} ELSE {AuthStatus(p)})

\* the (ai_data, ai_status) pairs extract can return
ProviderReturns(p) ==
    {<<fs, SuccessStatus(p)>> : fs \in AIFieldSets}
        \cup {<<NoDict, st>> : st \in FailureStatuses(p)}

\* ------------------------------------------------------------------------
\* Result dictionaries
\* ------------------------------------------------------------------------
\* sep.join(xs): a string is a sequence of pieces
RECURSIVE join(_, _)
join(sep, xs) ==
    IF xs = <<>> THEN <<>>
    ELSE IF Len(xs) = 1 THEN <<xs[1]>>
    ELSE <<xs[1]>> \o sep \o join(sep, Tail(xs))

BarSep == <<" ", "|", " ">>

FailedLoadRecord(filename, error) ==
    ("File Name" :> filename) @@ ("Status" :> "Failed Load") @@ ("Error" :> error)

ErrorRecord(filename, e) ==
    ("File Name" :> filename) @@ ("Status" :> "Error") @@ ("Error" :> e)

\* variant: the items test comes before the order-id test
StatusOf_mut_items_first(extr) ==
    IF truthy(get(extr, "items", <<>>)) THEN "Review Required"
    ELSE IF truthy(get(extr, "order_ids", <<>>)) THEN "Success"
    ELSE "Failed"

\* process_single_file, "Determine status"
StatusOf(extr) ==
    IF truthy(get(extr, "order_ids", <<>>)) THEN "Success"
    ELSE IF truthy(get(extr, "items", <<>>)) THEN "Review Required"
    ELSE "Failed"

\* process_single_file, "Build result dictionary"
BuildResult(filename, extr, conf, used, provider, status, crop_name) ==
    ("File Name" :> filename) @@
    ("Status" :> StatusOf(extr)) @@
    ("Overall Confidence" :> calculate_confidence(extr, conf)) @@
    ("AI Used" :> IF used THEN "Yes" ELSE "No") @@
    ("AI Provider" :> provider) @@
    ("AI Status" :> status) @@
    ("Tesseract Confidence (%)" :> conf) @@
    ("Crop Used" :> crop_name) @@
    ("Order IDs" :> join(BarSep, get(extr, "order_ids", <<>>))) @@
    ("Dates" :> join(BarSep, get(extr, "dates", <<>>))) @@
    ("Totals" :> join(BarSep, get(extr, "totals", <<>>))) @@
    ("Items" :> join(BarSep, get(extr, "items", <<>>))) @@
    ("Quantities" :> join(BarSep, get(extr, "quantities", <<>>))) @@
    ("Sellers" :> join(BarSep, get(extr, "sellers", <<>>))) @@
    ("Prices" :> join(BarSep, get(extr, "prices", <<>>))) @@
    ("Tracking Numbers" :> join(BarSep, get(extr, "tracking_numbers", <<>>)))


\* ------------------------------------------------------------------------
\* Values of the variables a specification does not use
\* ------------------------------------------------------------------------
FileIdle ==
    /\ config = [ai_mode |-> "never", ai_provider |-> "ollama",
                 tesseract_confidence_threshold |-> 70]
    /\ ai_processor = None /\ pc = "idle" /\ file = NoDict
    /\ ocr_text = <<>> /\ ocr_conf = 0 /\ local_fields = NoDict /\ extracted = NoDict
    /\ use_ai = FALSE /\ ai_ret = <<NoDict, "">> /\ ai_used = FALSE
    /\ temp_exists = FALSE /\ trace = <<>> /\ result = NoDict
    /\ env = [tesseract_ok |-> TRUE, provider_ok |-> TRUE]
PureIdle  == args = NoDict /\ ret = <<>>
BatchIdle == /\ bpc = "idle" /\ outcome = <<>> /\ todo = {} /\ results = <<>>
             /\ output = <<>> /\ exit_code = NotExited
ProvIdle  == /\ prov = NoDict /\ attempt = 0 /\ requests = 0 /\ sleeps = <<>>
             /\ tries = <<>> /\ ppc = "idle" /\ pret = <<NoDict, "">>
CropIdle  == /\ crop = NoDict /\ cidx = 0 /\ attempts = <<>> /\ score = 0
             /\ best = NoDict /\ cpc = "idle"

\* ------------------------------------------------------------------------
\* Spec: one extractor, one call of process_single_file
\* ------------------------------------------------------------------------
DEFAULT_THRESHOLD == 70
FileThresholds == {DEFAULT_THRESHOLD}
FileConfs      == {DEFAULT_THRESHOLD - 1, DEFAULT_THRESHOLD, DEFAULT_THRESHOLD + 1}
CropNames      == {"Full Image", "No Bottom 20%"}

InitFile ==
    /\ config \in [ai_mode : AIModes, ai_provider : Providers,
                   tesseract_confidence_threshold : FileThresholds]
    /\ ai_processor = None /\ pc = "new" /\ file = NoDict
    /\ ocr_text = <<>> /\ ocr_conf = 0 /\ local_fields = NoDict /\ extracted = NoDict
    /\ use_ai = FALSE /\ ai_ret = <<NoDict, "">> /\ ai_used = FALSE
    /\ temp_exists = FALSE /\ trace = <<>> /\ result = NoDict
    /\ env \in [tesseract_ok : BOOLEAN, provider_ok : BOOLEAN]
    /\ PureIdle /\ BatchIdle /\ ProvIdle /\ CropIdle

\* variant: a provider that cannot be built is logged and never re-raised
ExtractorInit_mut_swallow ==
    /\ pc = "new"
    /\ IF ~env.tesseract_ok
       THEN pc' = "startup_error" /\ UNCHANGED ai_processor
       ELSE IF config.ai_mode = "never"
       THEN pc' = "ready" /\ UNCHANGED ai_processor
       ELSE IF env.provider_ok
       THEN pc' = "ready" /\ ai_processor' = config.ai_provider
       ELSE pc' = "ready" /\ UNCHANGED ai_processor
    /\ UNCHANGED <<config, file, ocr_text, ocr_conf, local_fields, extracted, use_ai,
                   ai_ret, ai_used, temp_exists, trace, result>>
    /\ UNCHANGED <<env, pureVars, batchVars, provVars, cropVars>>

\* MeowzonExtractor.__init__ (with OCREngine._setup_tesseract)
ExtractorInit ==
    /\ pc = "new"
    /\ IF ~env.tesseract_ok
       THEN pc' = "startup_error" /\ UNCHANGED ai_processor
       ELSE IF config.ai_mode = "never"
       THEN pc' = "ready" /\ UNCHANGED ai_processor
       ELSE IF env.provider_ok
       THEN pc' = "ready" /\ ai_processor' = config.ai_provider
       ELSE IF config.ai_mode = "always"
       THEN pc' = "startup_error" /\ UNCHANGED ai_processor
       ELSE pc' = "ready" /\ UNCHANGED ai_processor
    /\ UNCHANGED <<config, file, ocr_text, ocr_conf, local_fields, extracted, use_ai,
                   ai_ret, ai_used, temp_exists, trace, result>>
    /\ UNCHANGED <<env, pureVars, batchVars, provVars, cropVars>>

\* process_single_file: load and validate the image
LoadAndValidate ==
    /\ pc = "ready"
    /\ \E f \in FileAttrs :
          /\ file' = f
          /\ trace' = Append(trace, "load_and_validate")
          /\ IF load_and_validate(f) # None
             THEN /\ result' = FailedLoadRecord(f.name, load_and_validate(f))
                  /\ pc' = "returned"
             ELSE /\ pc' = "loaded"
                  /\ UNCHANGED result
    /\ UNCHANGED <<config, ai_processor, ocr_text, ocr_conf, local_fields, extracted,
                   use_ai, ai_ret, ai_used, temp_exists>>
    /\ UNCHANGED <<env, pureVars, batchVars, provVars, cropVars>>

\* str.strip(): leading and trailing blanks removed
RECURSIVE lstrip(_)
lstrip(str) == IF str # <<>> /\ Head(str) = " " THEN lstrip(Tail(str)) ELSE str

RECURSIVE rstrip(_)
rstrip(str) ==
    IF str # <<>> /\ str[Len(str)] = " " THEN rstrip(SubSeq(str, 1, Len(str) - 1)) ELSE str

strip(str) == rstrip(lstrip(str))

\* OCREngine: the recognition engine and _ocr_with_confidence
MaxTokens == 3       \* tokens the engine reports for one image

\* what the two engine calls do for one image: which call raises, the
\* entries of data['conf'] (integers, or the text of one), and the text of
\* image_to_string as characters
EngineOutputs ==
    [raises : {"none", "image_to_data", "image_to_string"},
     conf   : SeqsOver([t : {"int", "str"}, v : {-1, 0, 96}], MaxTokens),
     text   : {<<>>, <<" ", "O", "k", " ">>}]

\* variant: an engine error leaves the method
_ocr_with_confidence_mut_reraise(out) ==
    LET \* [int(c) for c in data['conf'] if c != '-1']
        RECURSIVE Confidences(_)
        Confidences(conf) ==
            IF conf = <<>> THEN <<>>
            ELSE (IF ~ (Head(conf).t = "str" /\ Head(conf).v = -1)
                  THEN <<Head(conf).v>> ELSE <<>>) \o Confidences(Tail(conf))
        RECURSIVE SumOf(_)
        SumOf(xs) == IF xs = <<>> THEN 0 ELSE Head(xs) + SumOf(Tail(xs))
        confidences == Confidences(out.conf)
        \* np.mean(confidences) if confidences else 0.0
        mean_conf == IF confidences # <<>>
                     THEN [sum |-> SumOf(confidences), n |-> Len(confidences)]
                     ELSE [sum |-> 0, n |-> 1]
    IN  IF out.raises # "none"
        THEN [raised |-> TRUE, text |-> <<>>, conf |-> [sum |-> 0, n |-> 1]]
        ELSE [raised |-> FALSE, text |-> strip(out.text), conf |-> mean_conf]

\* OCREngine._ocr_with_confidence: the text and the mean confidence, a mean
\* being the sum and the number of the values
_ocr_with_confidence(out) ==
    LET \* [int(c) for c in data['conf'] if c != '-1']
        RECURSIVE Confidences(_)
        Confidences(conf) ==
            IF conf = <<>> THEN <<>>
            ELSE (IF ~ (Head(conf).t = "str" /\ Head(conf).v = -1)
                  THEN <<Head(conf).v>> ELSE <<>>) \o Confidences(Tail(conf))
        RECURSIVE SumOf(_)
        SumOf(xs) == IF xs = <<>> THEN 0 ELSE Head(xs) + SumOf(Tail(xs))
        confidences == Confidences(out.conf)
        \* np.mean(confidences) if confidences else 0.0
        mean_conf == IF confidences # <<>>
                     THEN [sum |-> SumOf(confidences), n |-> Len(confidences)]
                     ELSE [sum |-> 0, n |-> 1]
    IN  IF out.raises # "none"
        THEN [raised |-> FALSE, text |-> <<>>, conf |-> [sum |-> 0, n |-> 1]]
        ELSE [raised |-> FALSE, text |-> strip(out.text), conf |-> mean_conf]

\* process_single_file: find the best crop using OCR
FindBestCrop ==
    /\ pc = "loaded"
    /\ \/ \E text \in Texts, conf \in FileConfs :
             /\ ocr_text' = text
             /\ ocr_conf' = conf
             /\ trace' = trace \o <<"find_best_crop", "extract_text">>
             /\ pc' = "cropped"
       \/ \* the engine throws on every recognition call for this image
          \E out \in {o \in EngineOutputs : o.raises # "none" /\ o.conf = <<>>} :
             LET r == _ocr_with_confidence(out)
             IN  /\ trace' = trace \o <<"find_best_crop", "extract_text", "OCR error">>
                 /\ IF r.raised
                    THEN /\ pc' = "raised"
                         /\ UNCHANGED <<ocr_text, ocr_conf>>
                    ELSE /\ ocr_text' = r.text
                         /\ ocr_conf' = r.conf.sum \div r.conf.n
                         /\ pc' = "cropped"
    /\ UNCHANGED <<config, ai_processor, file, local_fields, extracted, use_ai,
                   ai_ret, ai_used, temp_exists, result>>
    /\ UNCHANGED <<env, pureVars, batchVars, provVars, cropVars>>

\* process_single_file: extract data from the OCR text
ExtractAll ==
    /\ pc = "cropped"
    /\ \E fs \in extract_all(ocr_text) :
          /\ local_fields' = fs
          /\ extracted' = fs
    /\ trace' = Append(trace, "extract_all")
    /\ pc' = "extracted"
    /\ UNCHANGED <<config, ai_processor, file, ocr_text, ocr_conf, use_ai,
                   ai_ret, ai_used, temp_exists, result>>
    /\ UNCHANGED <<env, pureVars, batchVars, provVars, cropVars>>

\* process_single_file: determine if AI should be used
ShouldUseAI ==
    /\ pc = "extracted"
    /\ use_ai' = _should_use_ai(config, extracted, ocr_conf)
    /\ trace' = Append(trace, "_should_use_ai")
    /\ pc' = "decided"
    /\ UNCHANGED <<config, ai_processor, file, ocr_text, ocr_conf, local_fields,
                   extracted, ai_ret, ai_used, temp_exists, result>>
    /\ UNCHANGED <<env, pureVars, batchVars, provVars, cropVars>>

\* variant: the AI stage is entered whatever the policy decided
SaveTempImage_mut_ignore_policy ==
    /\ pc = "decided"
    /\ ai_processor # None
    /\ temp_exists' = TRUE
    /\ trace' = Append(trace, "NamedTemporaryFile")
    /\ \E imwrite_raises \in BOOLEAN :
          pc' = IF imwrite_raises THEN "raised" ELSE "temp_saved"
    /\ UNCHANGED <<config, ai_processor, file, ocr_text, ocr_conf, local_fields,
                   extracted, use_ai, ai_ret, ai_used, result>>
    /\ UNCHANGED <<env, pureVars, batchVars, provVars, cropVars>>

\* process_single_file: save the temporary image for the AI
\* (NamedTemporaryFile(delete=False), then cv2.imwrite, outside the try)
SaveTempImage ==
    /\ pc = "decided"
    /\ use_ai /\ ai_processor # None
    /\ temp_exists' = TRUE
    /\ trace' = Append(trace, "NamedTemporaryFile")
    /\ \E imwrite_raises \in BOOLEAN :
          pc' = IF imwrite_raises THEN "raised" ELSE "temp_saved"
    /\ UNCHANGED <<config, ai_processor, file, ocr_text, ocr_conf, local_fields,
                   extracted, use_ai, ai_ret, ai_used, result>>
    /\ UNCHANGED <<env, pureVars, batchVars, provVars, cropVars>>

AIExtract_mut_used ==
    /\ pc = "temp_saved"
    /\ \/ \E r \in ProviderReturns(ai_processor) :
             /\ ai_ret' = r
             /\ ai_used' = TRUE
             /\ IF r[1] # NoDict
                THEN /\ extracted' = _merge_results(extracted, r[1])
                     /\ trace' = trace \o <<"extract", "_merge_results">>
                ELSE /\ UNCHANGED extracted
                     /\ trace' = Append(trace, "extract")
             /\ pc' = "ai_returned"
       \/ /\ pc' = "ai_raising"
          /\ trace' = Append(trace, "extract")
          /\ UNCHANGED <<ai_ret, extracted, ai_used>>
    /\ UNCHANGED <<config, ai_processor, file, ocr_text, ocr_conf, local_fields,
                   use_ai, temp_exists, result>>
    /\ UNCHANGED <<env, pureVars, batchVars, provVars, cropVars>>

\* process_single_file: the body of the try (extract, then merge)
AIExtract ==
    /\ pc = "temp_saved"
    /\ \/ \E r \in ProviderReturns(ai_processor) :
             /\ ai_ret' = r
             /\ IF r[1] # NoDict
                THEN /\ extracted' = _merge_results(extracted, r[1])
                     /\ ai_used' = TRUE
                     /\ trace' = trace \o <<"extract", "_merge_results">>
                ELSE /\ UNCHANGED <<extracted, ai_used>>
                     /\ trace' = Append(trace, "extract")
             /\ pc' = "ai_returned"
       \/ /\ pc' = "ai_raising"
          /\ trace' = Append(trace, "extract")
          /\ UNCHANGED <<ai_ret, extracted, ai_used>>
    /\ UNCHANGED <<config, ai_processor, file, ocr_text, ocr_conf, local_fields,
                   use_ai, temp_exists, result>>
    /\ UNCHANGED <<env, pureVars, batchVars, provVars, cropVars>>

\* process_single_file: the finally clause (os.unlink)
CleanupTemp ==
    /\ pc \in {"ai_returned", "ai_raising"}
    /\ temp_exists' = FALSE
    /\ trace' = Append(trace, "unlink")
    /\ pc' = IF pc = "ai_returned" THEN "ai_done" ELSE "raised"
    /\ UNCHANGED <<config, ai_processor, file, ocr_text, ocr_conf, local_fields,
                   extracted, use_ai, ai_ret, ai_used, result>>
    /\ UNCHANGED <<env, pureVars, batchVars, provVars, cropVars>>

\* variant: the record reports the policy's decision as AI use
ReturnResult_mut_use_ai ==
    /\ \/ pc = "ai_done"
       \/ pc = "decided" /\ ~(use_ai /\ ai_processor # None)
    /\ \E crop_name \in CropNames :
          result' = BuildResult(file.name, extracted, ocr_conf, use_ai,
                                IF use_ai THEN config.ai_provider ELSE "",
                                ai_ret[2], crop_name)
    /\ pc' = "returned"
    /\ UNCHANGED <<config, ai_processor, file, ocr_text, ocr_conf, local_fields,
                   extracted, use_ai, ai_ret, ai_used, temp_exists, trace>>
    /\ UNCHANGED <<env, pureVars, batchVars, provVars, cropVars>>

\* process_single_file: confidence, status, result dictionary, return
ReturnResult ==
    /\ \/ pc = "ai_done"
       \/ pc = "decided" /\ ~(use_ai /\ ai_processor # None)
    /\ \E crop_name \in CropNames :
          result' = BuildResult(file.name, extracted, ocr_conf, ai_used,
                                IF ai_used THEN config.ai_provider ELSE "",
                                ai_ret[2], crop_name)
    /\ pc' = "returned"
    /\ UNCHANGED <<config, ai_processor, file, ocr_text, ocr_conf, local_fields,
                   extracted, use_ai, ai_ret, ai_used, temp_exists, trace>>
    /\ UNCHANGED <<env, pureVars, batchVars, provVars, cropVars>>

Next ==
    \/ ExtractorInit
    \/ LoadAndValidate
    \/ FindBestCrop
    \/ ExtractAll
    \/ ShouldUseAI
    \/ SaveTempImage
    \/ AIExtract
    \/ CleanupTemp
    \/ ReturnResult

Spec == InitFile /\ [][Next]_vars


\* ------------------------------------------------------------------------
\* SpecEscalation: _should_use_ai on bounded inputs
\* ------------------------------------------------------------------------
MAX_CONF == 100

EscFieldSets ==
    {[EmptyFields EXCEPT !["order_ids"] = o, !["items"] = i] :
        o \in {<<>>, <<OrderIdA>>}, i \in {<<>>, <<"Stainless Steel Widget">>}}

InitEscalation ==
    /\ \E cfg \in [ai_mode : AIModes, ai_provider : {"ollama"},
                   tesseract_confidence_threshold : Thresholds],
          e \in EscFieldSets, c \in 0..MAX_CONF :
             args = [fn |-> "_should_use_ai", cfg |-> cfg, extracted |-> e, ocr_conf |-> c]
    /\ ret = <<>>
    /\ FileIdle /\ BatchIdle /\ ProvIdle /\ CropIdle

ApplyShouldUseAI ==
    /\ args.fn = "_should_use_ai" /\ ret = <<>>
    /\ ret' = <<_should_use_ai(args.cfg, args.extracted, args.ocr_conf)>>
    /\ UNCHANGED <<args, fileVars, batchVars, provVars, cropVars>>

SpecEscalation == InitEscalation /\ [][ApplyShouldUseAI]_vars

\* C1: _should_use_ai is false for every input in mode never, true for
\* every input in mode always, and in mode hybrid true exactly when
\* ocrConfidence < threshold, or orderIds is empty, or items is empty.
C1_EscalationPolicy ==
    (args.fn = "_should_use_ai" /\ ret # <<>>) =>
        LET mode == args.cfg.ai_mode
            low  == args.ocr_conf < args.cfg.tesseract_confidence_threshold
            noid == args.extracted["order_ids"] = <<>>
            noit == args.extracted["items"] = <<>>
        IN  /\ mode = "never"  => ret[1] = FALSE
            /\ mode = "always" => ret[1] = TRUE
            /\ mode = "hybrid" => (ret[1] <=> (low \/ noid \/ noit))

\* hybrid, confidence exactly at the threshold, both fields present: no escalation
C1_Witness ==
    /\ args.fn = "_should_use_ai" /\ ret = <<FALSE>>
    /\ args.cfg.ai_mode = "hybrid"
    /\ args.ocr_conf = args.cfg.tesseract_confidence_threshold
    /\ args.extracted["order_ids"] # <<>> /\ args.extracted["items"] # <<>>

\* ------------------------------------------------------------------------
\* SpecMerge: _merge_results on bounded inputs
\* ------------------------------------------------------------------------
SourceFieldSets(tag) ==
    {[k \in FieldKeys |-> IF k \in K THEN <<tag \o k>> ELSE <<>>] : K \in SUBSET FieldKeys}

InitMerge ==
    /\ \E o \in SourceFieldSets("ocr "), a \in SourceFieldSets("ai ") :
          args = [fn |-> "_merge_results", ocr_data |-> o, ai_data |-> a]
    /\ ret = <<>>
    /\ FileIdle /\ BatchIdle /\ ProvIdle /\ CropIdle

ApplyMerge ==
    /\ args.fn = "_merge_results" /\ ret = <<>>
    /\ ret' = <<_merge_results(args.ocr_data, args.ai_data)>>
    /\ UNCHANGED <<args, fileVars, batchVars, provVars, cropVars>>

SpecMerge == InitMerge /\ [][ApplyMerge]_vars

\* C2: per field key, the merged list is the AI list when that is non-empty
\* and the local list otherwise; it is always one of the two input lists,
\* and an empty AI list never erases a non-empty local list.
C2_MergeRule ==
    (args.fn = "_merge_results" /\ ret # <<>>) =>
        /\ DOMAIN ret[1] = FieldKeys
        /\ \A k \in FieldKeys :
              LET ai == args.ai_data[k]
                  lo == args.ocr_data[k]
                  m  == ret[1][k]
              IN  /\ ai # <<>> => m = ai
                  /\ ai = <<>> => m = lo
                  /\ m \in {ai, lo}
                  /\ (ai = <<>> /\ lo # <<>>) => m # <<>>

\* spec section 8: local has an order id and no item, AI has an item and no
\* order id; the merge keeps the local order id and takes the AI item
C2_Witness ==
    /\ args.fn = "_merge_results" /\ ret # <<>>
    /\ args.ocr_data["order_ids"] # <<>> /\ args.ai_data["order_ids"] = <<>>
    /\ args.ocr_data["items"] = <<>> /\ args.ai_data["items"] # <<>>
    /\ args.ocr_data["totals"] # <<>> /\ args.ai_data["totals"] # <<>>
    /\ ret[1]["order_ids"] = args.ocr_data["order_ids"]
    /\ ret[1]["items"] = args.ai_data["items"]
    /\ ret[1]["totals"] = args.ai_data["totals"]

\* ------------------------------------------------------------------------
\* Claims on process_single_file (Spec)
\* ------------------------------------------------------------------------
FieldColumn(k) ==
    CASE k = "order_ids"        -> "Order IDs"
      [] k = "prices"           -> "Prices"
      [] k = "dates"            -> "Dates"
      [] k = "totals"           -> "Totals"
      [] k = "quantities"       -> "Quantities"
      [] k = "sellers"          -> "Sellers"
      [] k = "tracking_numbers" -> "Tracking Numbers"
      [] k = "items"            -> "Items"

AdapterCalled == \E i \in 1..Len(trace) : trace[i] = "extract"

\* C3: when the adapter was invoked and returned null fields, the record's
\* fields are the local fields unchanged, AI Used is No, AI Status is the
\* adapter's status string and the status is derived from the local fields.
C3_AIFailureKeepsLocal ==
    (pc = "returned" /\ AdapterCalled /\ ai_ret[1] = NoDict) =>
        /\ extracted = local_fields
        /\ \A k \in FieldKeys : result[FieldColumn(k)] = join(BarSep, local_fields[k])
        /\ result["AI Used"] = "No"
        /\ result["AI Provider"] = ""
        /\ result["AI Status"] = ai_ret[2]
        /\ ai_ret[2] \in FailureStatuses(ai_processor)
        /\ result["Status"] =
              (IF local_fields["order_ids"] # <<>> THEN "Success"
               ELSE IF local_fields["items"] # <<>> THEN "Review Required"
               ELSE "Failed")

C3_Witness ==
    /\ pc = "returned" /\ AdapterCalled /\ ai_ret[1] = NoDict
    /\ ai_ret[2] = ParseFailedStatus("openai")
    /\ local_fields["order_ids"] # <<>>
    /\ result["Status"] = "Success" /\ result["AI Status"] = "OpenAI JSON Parse Failed"

FailsLoad(f) ==
    \/ ~f.exists
    \/ f.size > MAX_IMAGE_SIZE_MB * 1024 * 1024
    \/ lower(f.suffix) \notin valid_extensions
    \/ f.imread # "image"
    \/ f.height < 100 \/ f.width < 100
    \/ f.height > 10000 \/ f.width > 10000

\* C5: a file that fails validation or loading gets a Failed Load record,
\* and nothing but load_and_validate runs for it: no recognition, no crop
\* search, no field extraction, no AI call.
C5_FailedLoadShortCircuits ==
    (file # NoDict /\ FailsLoad(file)) =>
        /\ pc = "returned"
        /\ result["Status"] = "Failed Load"
        /\ result["File Name"] = file.name
        /\ trace = <<"load_and_validate">>
        /\ ~temp_exists

C5_Witness ==
    /\ pc = "returned" /\ file # NoDict /\ file.height = MAX_SIDE + 1
    /\ result["Status"] = "Failed Load" /\ trace = <<"load_and_validate">>

TempCreated == \E i \in 1..Len(trace) : trace[i] = "NamedTemporaryFile"

\* C7: whenever process_single_file created the temporary image, the file
\* no longer exists when the call returns or raises.
C7_TempFileDeleted ==
    (pc \in {"returned", "raised"} /\ TempCreated) => ~temp_exists


\* ------------------------------------------------------------------------
\* SpecBatch: run() over a folder of files
\* ------------------------------------------------------------------------
MaxFiles == 3        \* image files in the input folder

FileName(i) ==
    CASE i = 1 -> "a.png" [] i = 2 -> "b.png" [] i = 3 -> "c.png"
      [] i = 4 -> "d.png" [] OTHER -> "e.png"

FileIndex(name) == CHOOSE i \in 1..5 : FileName(i) = name

\* input_path.iterdir(): the listing comes in some order
Listings(n) == {[i \in 1..n |-> FileName(i)], [i \in 1..n |-> FileName(n + 1 - i)]}

\* What process_single_file does for a file: raise, or return a record.
Outcomes ==
    {[kind |-> "raises",      order_ids |-> <<>>, conf |-> 0],
     [kind |-> "failed_load", order_ids |-> <<>>, conf |-> 0],
     [kind |-> "ok", order_ids |-> <<>>,                   conf |-> 60],
     [kind |-> "ok", order_ids |-> <<OrderIdA>>,           conf |-> 60],
     [kind |-> "ok", order_ids |-> <<OrderIdA>>,           conf |-> 90],
     [kind |-> "ok", order_ids |-> <<OrderIdA, OrderIdB>>, conf |-> 75],
     [kind |-> "ok", order_ids |-> <<OrderIdB>>,           conf |-> 60]}

\* the dictionary process_single_file returns under an outcome that returns
OutcomeRecord(name, o) ==
    IF o.kind = "failed_load"
    THEN FailedLoadRecord(name, "Image too small")
    ELSE BuildResult(name, [EmptyFields EXCEPT !["order_ids"] = o.order_ids],
                     o.conf, FALSE, "", "", "Full Image")

\* _process_sequential, one iteration of the loop: the records it appends.
\* The log line after the append reads result['Tesseract Confidence (%)'];
\* a KeyError there is caught by the same except clause.
SequentialStep(name, o) ==
    IF o.kind = "raises" THEN <<ErrorRecord(name, "exception")>>
    ELSE LET r == OutcomeRecord(name, o)
         IN  IF "Tesseract Confidence (%)" \in DOMAIN r
             THEN <<r>>
             ELSE <<r, ErrorRecord(name, "'Tesseract Confidence (%)'")>>

\* _process_parallel, one completed future: the records it appends
ParallelStep(name, o) ==
    IF o.kind = "raises" THEN <<ErrorRecord(name, "exception")>>
    ELSE <<OutcomeRecord(name, o)>>

\* pd.DataFrame(results): the columns, and a cell (NaN when the row's
\* dictionary had no such key)
Columns(rows) == UNION {DOMAIN rows[i] : i \in 1..Len(rows)}
Cell(row, col) == IF col \in DOMAIN row THEN row[col] ELSE NaN

\* str.split('|').str[0]: the text before the first '|' (NaN stays NaN)
RECURSIVE BeforeBar(_)
BeforeBar(str) ==
    IF str = <<>> \/ Head(str) = "|" THEN <<>>
    ELSE <<Head(str)>> \o BeforeBar(Tail(str))

first_order_id(row) ==
    IF Cell(row, "Order IDs") = NaN THEN NaN ELSE BeforeBar(row["Order IDs"])

\* DuplicateDetector.find_duplicates
find_duplicates(rows) ==
    IF "Order IDs" \notin Columns(rows)
    THEN [i \in 1..Len(rows) |-> rows[i] @@ ("is_duplicate" :> FALSE)]
    ELSE [i \in 1..Len(rows) |->
            rows[i] @@ ("is_duplicate" :>
                \E j \in 1..(i - 1) : first_order_id(rows[j]) = first_order_id(rows[i]))]

\* df.sort_values('File Name'): insertion into an already sorted prefix,
\* rows with equal names keep their order
RECURSIVE InsertByName(_, _)
InsertByName(row, sorted) ==
    IF sorted = <<>> THEN <<row>>
    ELSE IF FileIndex(row["File Name"]) < FileIndex(Head(sorted)["File Name"])
    THEN <<row>> \o sorted
    ELSE <<Head(sorted)>> \o InsertByName(row, Tail(sorted))

RECURSIVE sort_values(_)
sort_values(rows) ==
    IF rows = <<>> THEN <<>>
    ELSE InsertByName(rows[Len(rows)], sort_values(SubSeq(rows, 1, Len(rows) - 1)))

\* format_output_dataframe (confidences are already whole numbers)
format_output_dataframe(rows) == sort_values(rows)

\* run(): from the list of results to the rows handed to the writer
PostProcess(cfg, rows) ==
    format_output_dataframe(
        IF cfg.enable_duplicate_detection THEN find_duplicates(rows) ELSE rows)

InitBatch ==
    /\ \E par \in BOOLEAN, dup \in BOOLEAN, n \in 0..MaxFiles :
          \E paths \in Listings(n) :
             config = [parallel_processing |-> par, enable_duplicate_detection |-> dup,
                       file_paths |-> paths]
    /\ ai_processor = None /\ pc = "idle" /\ file = NoDict
    /\ ocr_text = <<>> /\ ocr_conf = 0 /\ local_fields = NoDict /\ extracted = NoDict
    /\ use_ai = FALSE /\ ai_ret = <<NoDict, "">> /\ ai_used = FALSE
    /\ temp_exists = FALSE /\ trace = <<>> /\ result = NoDict
    /\ env = [tesseract_ok |-> TRUE, provider_ok |-> TRUE]
    /\ bpc = "start" /\ outcome = <<>> /\ todo = {} /\ results = <<>>
    /\ output = <<>> /\ exit_code = NotExited
    /\ PureIdle /\ ProvIdle /\ CropIdle

\* run(): find the image files; return None when there is none
RunStart ==
    /\ bpc = "start"
    /\ IF Len(config.file_paths) = 0
       THEN /\ bpc' = "done" /\ exit_code' = 0
            /\ UNCHANGED todo
       ELSE /\ bpc' = "processing"
            /\ todo' = 1..Len(config.file_paths)
            /\ UNCHANGED exit_code
    /\ UNCHANGED <<outcome, results, output>>
    /\ UNCHANGED <<fileVars, pureVars, provVars, cropVars>>

\* _process_sequential: one iteration, files in listing order
ProcessSequential ==
    /\ bpc = "processing" /\ ~config.parallel_processing
    /\ todo # {}
    /\ LET i == CHOOSE k \in todo : \A m \in todo : k <= m
           name == config.file_paths[i]
       IN  \E o \in Outcomes :
             /\ outcome' = outcome @@ (name :> o)
             /\ results' = results \o SequentialStep(name, o)
             /\ todo' = todo \ {i}
    /\ UNCHANGED <<bpc, output, exit_code>>
    /\ UNCHANGED <<fileVars, pureVars, provVars, cropVars>>

\* _process_parallel: one future completes, in any order
ProcessParallel ==
    /\ bpc = "processing" /\ config.parallel_processing
    /\ \E i \in todo, o \in Outcomes :
          LET name == config.file_paths[i]
          IN  /\ outcome' = outcome @@ (name :> o)
              /\ results' = results \o ParallelStep(name, o)
              /\ todo' = todo \ {i}
    /\ UNCHANGED <<bpc, output, exit_code>>
    /\ UNCHANGED <<fileVars, pureVars, provVars, cropVars>>

\* run(): DataFrame, duplicate detection, formatting, save; main returns 0
RunFinish ==
    /\ bpc = "processing" /\ todo = {}
    /\ output' = PostProcess(config, results)
    /\ bpc' = "done" /\ exit_code' = 0
    /\ UNCHANGED <<outcome, todo, results>>
    /\ UNCHANGED <<fileVars, pureVars, provVars, cropVars>>

\* main: KeyboardInterrupt while process_files runs.  Neither process_files
\* nor run() handles it; main logs a warning and returns 130.
Interrupt ==
    /\ bpc = "processing"
    /\ bpc' = "interrupted" /\ exit_code' = 130
    /\ UNCHANGED <<outcome, todo, results, output>>
    /\ UNCHANGED <<fileVars, pureVars, provVars, cropVars>>

NextBatch ==
    \/ RunStart
    \/ ProcessSequential
    \/ ProcessParallel
    \/ RunFinish
    \/ Interrupt

SpecBatch == InitBatch /\ [][NextBatch]_vars


\* ------------------------------------------------------------------------
\* Claims on the batch (SpecBatch)
\* ------------------------------------------------------------------------
RecordsOf(name, rows) == {i \in 1..Len(rows) : rows[i]["File Name"] = name}

AllProcessed ==
    bpc \in {"processing", "done"} /\ todo = {} /\ Len(config.file_paths) > 0

\* C4: in both modes process_files returns exactly one record per input
\* path: an Error record with the file's name for a file whose pipeline
\* raised, and the file's normal record for every other file.
C4_OneRecordPerFile ==
    AllProcessed =>
        /\ Len(results) = Len(config.file_paths)
        /\ \A p \in 1..Len(config.file_paths) :
              LET name == config.file_paths[p]
              IN  /\ Cardinality(RecordsOf(name, results)) = 1
                  /\ \A i \in RecordsOf(name, results) :
                        IF outcome[name].kind = "raises"
                        THEN results[i]["Status"] = "Error"
                        ELSE results[i] = OutcomeRecord(name, outcome[name])

\* what _process_sequential returns for the same files and outcomes
RECURSIVE SequentialResults(_, _)
SequentialResults(paths, outc) ==
    IF paths = <<>> THEN <<>>
    ELSE SequentialStep(Head(paths), outc[Head(paths)])
            \o SequentialResults(Tail(paths), outc)

\* C6: with the same files and per-file outcomes, the rows run() writes in
\* parallel mode (records, order, duplicate flags) are those of sequential
\* mode, whatever the completion order.
C6_ParallelEqualsSequential ==
    (bpc = "done" /\ config.parallel_processing /\ Len(config.file_paths) > 0) =>
        output = PostProcess(config, SequentialResults(config.file_paths, outcome))

\* C9: after an interrupt, the records produced so far are in the output.
C9_InterruptKeepsRecords ==
    bpc = "interrupted" =>
        \A i \in 1..Len(results) :
            \E j \in 1..Len(output) : output[j]["File Name"] = results[i]["File Name"]


\* ------------------------------------------------------------------------
\* SpecProvider: one call of a provider's extract
\* ------------------------------------------------------------------------
MaxRetries == 3      \* largest configured ai_max_retries

\* What one attempt can meet.
\*   object      the reply parses to a non-empty JSON object
\*   falsy       _parse_json_response returns None (or an empty value)
\*   nondict     the reply parses to a non-empty value that is no object;
\*               _normalize_to_lists raises on data.get
\*   connection_error, timeout      transient network failures
\*   auth_authentication, auth_api_key, auth_other
\*               authentication failures, by the words of their message
\*   error       any other exception after the request was sent
\*   open_raises PIL.Image.open fails before the request (Gemini)
\* What the vendor can reply: a body, bare or wrapped in a code fence
\* (the fence on lines of its own, or fence and body on a single line).
Responses ==
    [fence : {"none", "lines", "single_line"},
     body  : {"object", "empty_object", "array", "empty_array", "string",
              "empty_string", "number", "null", "prose", "prose_with_object"}]

\* json.loads(content): the value, or "JSONDecodeError"
json_loads(body) ==
    CASE body \in {"prose", "prose_with_object"} -> "JSONDecodeError"
      [] OTHER -> body

\* _parse_json_response: the parsed value, None, or "IndexError" when the
\* first line starts with the fence and is the only line (lines[-1] of [])
_parse_json_response(content) ==
    IF content.fence = "single_line" THEN "IndexError"
    ELSE IF json_loads(content.body) # "JSONDecodeError" THEN json_loads(content.body)
    ELSE IF content.body = "prose_with_object" THEN "object"   \* re.search(r'\{.*\}')
    ELSE None

\* the try block after the reply arrived: `if data:` normalise and return,
\* else return Parse Failed; data.get raises on a value that is no dict
ResponseOutcome(content) ==
    LET data == _parse_json_response(content)
    IN  IF data = "IndexError" THEN "error"
        ELSE IF data \notin {"object", "array", "string", "number"} THEN "falsy"  \* if data:
        ELSE IF data = "object" THEN "object"
        ELSE "nondict"

AttemptOutcomes(p) ==
    {ResponseOutcome(c) : c \in Responses}
        \cup {"connection_error", "timeout", "error"}
        \cup (IF p = "ollama" THEN {}
              ELSE {"auth_authentication", "auth_api_key", "auth_other"})
        \cup (IF p = "gemini" THEN {"open_raises"} ELSE {})

Succeeds(o) == o = "object"

\* variant: every adapter returns at once on a connection error
Handling_mut_no_retry_on_connection(p, o) ==
    CASE o = "object" -> "return_success"
      [] o = "falsy"  -> "return_parse_failed"
      [] o = "connection_error" -> "return_not_running"
      [] p = "ollama" /\ o = "timeout" -> "retry_timeout"
      [] p \in {"openai", "claude"} /\ o \in {"auth_authentication", "auth_api_key"}
            -> "return_auth"
      [] p = "gemini" /\ o = "auth_api_key" -> "return_auth"
      [] OTHER -> "retry_error"

\* the except clause (or return) that an attempt's outcome reaches
Handling(p, o) ==
    CASE o = "object" -> "return_success"
      [] o = "falsy"  -> "return_parse_failed"
      [] p = "ollama" /\ o = "connection_error" -> "return_not_running"
      [] p = "ollama" /\ o = "timeout" -> "retry_timeout"
      [] p \in {"openai", "claude"} /\ o \in {"auth_authentication", "auth_api_key"}
            -> "return_auth"
      [] p = "gemini" /\ o = "auth_api_key" -> "return_auth"
      [] OTHER -> "retry_error"

RECURSIVE Pow2(_)
Pow2(k) == IF k = 0 THEN 1 ELSE 2 * Pow2(k - 1)

should_retry_mut_le(att, max_retries) == att < max_retries

\* `if attempt < self.max_retries - 1`
should_retry(att, max_retries) == att < max_retries - 1

\* `time.sleep(2 ** attempt)`
backoff(att) == Pow2(att)

Retries(h) == h \in {"retry_timeout", "retry_error"}

\* the status returned when the handling returns
ReturnedStatus(p, h) ==
    CASE h = "return_success"      -> SuccessStatus(p)
      [] h = "return_parse_failed" -> ParseFailedStatus(p)
      [] h = "return_not_running"  -> OllamaNotRunning
      [] h = "return_auth"         -> AuthStatus(p)
      [] h = "retry_timeout"       -> OllamaTimeout
      [] h = "retry_error"         -> ErrorStatus(p)

InitProvider ==
    /\ \E p \in Providers, m \in 0..MaxRetries :
          prov = [name |-> p, max_retries |-> m]
    /\ attempt = 0 /\ requests = 0 /\ sleeps = <<>> /\ tries = <<>>
    /\ ppc = "start" /\ pret = <<NoDict, "">>
    /\ FileIdle /\ PureIdle /\ BatchIdle /\ CropIdle

\* extract: the statements before the loop (_encode_image reads the file)
EncodeImage ==
    /\ ppc = "start"
    /\ \/ ppc' = "loop"
       \/ prov.name # "gemini" /\ ppc' = "raised"
    /\ UNCHANGED <<prov, attempt, requests, sleeps, tries, pret>>
    /\ UNCHANGED <<fileVars, pureVars, batchVars, cropVars>>

\* extract: one iteration of `for attempt in range(self.max_retries)`
Attempt ==
    /\ ppc = "loop" /\ attempt < prov.max_retries
    /\ \E o \in AttemptOutcomes(prov.name) :
          LET h == Handling(prov.name, o)
          IN  /\ tries' = Append(tries, o)
              /\ requests' = IF o = "open_raises" THEN requests ELSE requests + 1
              /\ IF Retries(h) /\ should_retry(attempt, prov.max_retries)
                 THEN /\ sleeps' = Append(sleeps, backoff(attempt))
                      /\ attempt' = attempt + 1
                      /\ UNCHANGED <<ppc, pret>>
                 ELSE /\ ppc' = "done"
                      /\ UNCHANGED <<sleeps, attempt>>
                      /\ IF h = "return_success"
                         THEN \E fs \in AIFieldSets : pret' = <<fs, ReturnedStatus(prov.name, h)>>
                         ELSE pret' = <<NoDict, ReturnedStatus(prov.name, h)>>
    /\ UNCHANGED prov
    /\ UNCHANGED <<fileVars, pureVars, batchVars, cropVars>>

\* extract: the return after the loop
LoopExhausted ==
    /\ ppc = "loop" /\ attempt >= prov.max_retries
    /\ ppc' = "done"
    /\ pret' = <<NoDict, AfterRetriesStatus(prov.name)>>
    /\ UNCHANGED <<prov, attempt, requests, sleeps, tries>>
    /\ UNCHANGED <<fileVars, pureVars, batchVars, cropVars>>

NextProvider ==
    \/ EncodeImage
    \/ Attempt
    \/ LoopExhausted

SpecProvider == InitProvider /\ [][NextProvider]_vars

\* the call runs on: a request returns or times out, a sleep ends
FairSpecProvider == SpecProvider /\ WF_vars(NextProvider)

\* C8: extract issues at most max_retries requests; it waits 2^k seconds
\* after the k-th failed attempt (k from 0) before the next attempt and not
\* after the last one; when every attempt fails it returns (null, failure
\* status) instead of raising; the call always ends.
C8_Bounded ==
    /\ requests <= prov.max_retries
    /\ Len(tries) <= prov.max_retries
    /\ \A k \in 1..Len(sleeps) : sleeps[k] = Pow2(k - 1) /\ ~Succeeds(tries[k])
    /\ ppc = "loop" => Len(sleeps) = Len(tries)
    /\ (ppc = "done" /\ tries # <<>>) => Len(sleeps) = Len(tries) - 1
    /\ ppc = "raised" => tries = <<>>
    /\ (ppc = "done" /\ \A k \in 1..Len(tries) : ~Succeeds(tries[k])) =>
            /\ pret[1] = NoDict
            /\ pret[2] \in FailureStatuses(prov.name)

C8_RetryPolicy == []C8_Bounded /\ <>(ppc \in {"done", "raised"})

\* three attempts, all failed, waits of 1 s and 2 s, a failure status returned
C8_Witness ==
    /\ ppc = "done" /\ prov.max_retries = 3
    /\ tries = <<"timeout", "error", "timeout">>
    /\ requests = 3 /\ sleeps = <<1, 2>>
    /\ pret = <<NoDict, OllamaTimeout>>


\* ------------------------------------------------------------------------
\* SpecCrop: one call of ImageProcessor.find_best_crop
\* ------------------------------------------------------------------------
MaxStrategies == 3   \* entries of the default catalog that are configured

ID_BONUS == 100
MIN_CROP == 50

\* config.crop_strategies, margins in percent
DefaultCatalog ==
    << [name |-> "No Bottom 20%", top |-> 0,  bottom |-> 20, left |-> 0,  right |-> 0],
       [name |-> "No Top 20%",    top |-> 20, bottom |-> 0,  left |-> 0,  right |-> 0],
       [name |-> "No Top 15%",    top |-> 15, bottom |-> 0,  left |-> 0,  right |-> 0],
       [name |-> "Center 80%",    top |-> 10, bottom |-> 10, left |-> 10, right |-> 10],
       [name |-> "Tight Center",  top |-> 10, bottom |-> 10, left |-> 5,  right |-> 5] >>

\* user-configured strategies that can fail to give a usable crop
Degenerate == [name |-> "Nothing Left", top |-> 50, bottom |-> 50, left |-> 0, right |-> 0]
Narrow     == [name |-> "Middle 40%",   top |-> 30, bottom |-> 30, left |-> 30, right |-> 30]

Catalogs ==
    {SubSeq(DefaultCatalog, 1, n) : n \in 0..Min(MaxStrategies, Len(DefaultCatalog))}
        \cup {<<Degenerate, Narrow>> \o SubSeq(DefaultCatalog, 1, n) :
                n \in 0..Min(MaxStrategies - 2, Len(DefaultCatalog))}

CropImages == {[height |-> MIN_SIDE, width |-> MIN_SIDE],
               [height |-> MAX_SIDE, width |-> MAX_SIDE]}

CropConfs == {0, 70, 100}

\* texts the recogniser can return for a region
CropTexts == {<<>>, <<<<"items", "Stainless Steel Widget">>>>, <<<<"order_ids", OrderIdA>>>>}

\* ImageProcessor._has_order_id
_has_order_id(text) == \E i \in 1..Len(text) : text[i][1] = "order_ids"

\* apply_crop: the size of the crop, or None
apply_crop(image, crop_params) ==
    LET start_y == (image.height * crop_params.top) \div 100
        end_y   == image.height - (image.height * crop_params.bottom) \div 100
        start_x == (image.width * crop_params.left) \div 100
        end_x   == image.width - (image.width * crop_params.right) \div 100
    IN  IF end_y <= start_y \/ end_x <= start_x THEN NoDict
        ELSE IF end_y - start_y < MIN_CROP \/ end_x - start_x < MIN_CROP THEN NoDict
        ELSE [height |-> end_y - start_y, width |-> end_x - start_x]

\* `conf + 100 if self._has_order_id(text) else conf`
ScoreOf(text, conf) == IF _has_order_id(text) THEN conf + ID_BONUS ELSE conf

\* variant: the exit needs a confidence strictly above the threshold
EarlyExit_mut_strict(text, conf, threshold) == conf > threshold /\ _has_order_id(text)

\* `conf >= threshold_confidence and self._has_order_id(text)`
EarlyExit(text, conf, threshold) == conf >= threshold /\ _has_order_id(text)

InitCrop ==
    /\ \E t \in Thresholds, img \in CropImages, cat \in Catalogs :
          crop = [threshold_confidence |-> t, image |-> img, crop_strategies |-> cat]
    /\ cidx = 0 /\ attempts = <<>> /\ score = 0 /\ best = NoDict /\ cpc = "start"
    /\ FileIdle /\ PureIdle /\ BatchIdle /\ ProvIdle

\* find_best_crop: the full image
TryFullImage ==
    /\ cpc = "start"
    /\ \E text \in CropTexts, conf \in CropConfs :
          /\ attempts' = <<[strategy |-> "Full Image", text |-> text, conf |-> conf]>>
          /\ best' = [text |-> text, conf |-> conf, crop_name |-> "Full Image"]
          /\ score' = ScoreOf(text, conf)
          /\ IF EarlyExit(text, conf, crop.threshold_confidence)
             THEN cpc' = "returned" /\ UNCHANGED cidx
             ELSE cpc' = "loop" /\ cidx' = 1
    /\ UNCHANGED crop
    /\ UNCHANGED <<fileVars, pureVars, batchVars, provVars>>

\* variant: an attempt with an equal score replaces the best (`>=`)
TryCrop_mut_ge ==
    /\ cpc = "loop" /\ cidx <= Len(crop.crop_strategies)
    /\ LET crop_dict == crop.crop_strategies[cidx]
       IN  IF apply_crop(crop.image, crop_dict) = NoDict
           THEN /\ cidx' = cidx + 1
                /\ UNCHANGED <<attempts, best, score, cpc>>
           ELSE \E text \in CropTexts, conf \in CropConfs :
                  /\ attempts' = Append(attempts,
                        [strategy |-> crop_dict.name, text |-> text, conf |-> conf])
                  /\ IF ScoreOf(text, conf) >= score
                     THEN /\ score' = ScoreOf(text, conf)
                          /\ best' = [text |-> text, conf |-> conf,
                                      crop_name |-> crop_dict.name]
                          /\ IF EarlyExit(text, conf, crop.threshold_confidence)
                             THEN cpc' = "returned" /\ UNCHANGED cidx
                             ELSE cidx' = cidx + 1 /\ UNCHANGED cpc
                     ELSE /\ cidx' = cidx + 1
                          /\ UNCHANGED <<score, best, cpc>>
    /\ UNCHANGED crop
    /\ UNCHANGED <<fileVars, pureVars, batchVars, provVars>>

\* find_best_crop: one iteration of `for crop_dict in self.crop_strategies`
TryCrop ==
    /\ cpc = "loop" /\ cidx <= Len(crop.crop_strategies)
    /\ LET crop_dict == crop.crop_strategies[cidx]
       IN  IF apply_crop(crop.image, crop_dict) = NoDict
           THEN /\ cidx' = cidx + 1
                /\ UNCHANGED <<attempts, best, score, cpc>>
           ELSE \E text \in CropTexts, conf \in CropConfs :
                  /\ attempts' = Append(attempts,
                        [strategy |-> crop_dict.name, text |-> text, conf |-> conf])
                  /\ IF ScoreOf(text, conf) > score
                     THEN /\ score' = ScoreOf(text, conf)
                          /\ best' = [text |-> text, conf |-> conf,
                                      crop_name |-> crop_dict.name]
                          /\ IF EarlyExit(text, conf, crop.threshold_confidence)
                             THEN cpc' = "returned" /\ UNCHANGED cidx
                             ELSE cidx' = cidx + 1 /\ UNCHANGED cpc
                     ELSE /\ cidx' = cidx + 1
                          /\ UNCHANGED <<score, best, cpc>>
    /\ UNCHANGED crop
    /\ UNCHANGED <<fileVars, pureVars, batchVars, provVars>>

\* find_best_crop: the catalog is exhausted, return the best
ReturnBest ==
    /\ cpc = "loop" /\ cidx > Len(crop.crop_strategies)
    /\ cpc' = "returned"
    /\ UNCHANGED <<crop, cidx, attempts, score, best>>
    /\ UNCHANGED <<fileVars, pureVars, batchVars, provVars>>

NextCrop ==
    \/ TryFullImage
    \/ TryCrop
    \/ ReturnBest

SpecCrop == InitCrop /\ [][NextCrop]_vars

AttemptScore(a) == IF _has_order_id(a.text) THEN a.conf + 100 ELSE a.conf

\* C10: an attempt whose text contains an order id always scores strictly
\* higher than one whose text contains none; hence whenever an evaluated
\* attempt contains an order id, the returned text contains an order id.
C10_IdOutranksConfidence ==
    /\ \A i, j \in 1..Len(attempts) :
          (_has_order_id(attempts[i].text) /\ ~_has_order_id(attempts[j].text))
              => AttemptScore(attempts[i]) > AttemptScore(attempts[j])
    /\ (cpc = "returned" /\ \E i \in 1..Len(attempts) : _has_order_id(attempts[i].text))
          => _has_order_id(best.text)

\* the attempt find_best_crop returns, as (strategy, text, confidence)
Returned == [strategy |-> best.crop_name, text |-> best.text, conf |-> best.conf]

FullImageQualifiesByScore ==
    /\ attempts # <<>>
    /\ AttemptScore(attempts[1]) >= crop.threshold_confidence
    /\ _has_order_id(attempts[1].text)

FullImageQualifiesByConf ==
    /\ attempts # <<>>
    /\ attempts[1].conf >= crop.threshold_confidence
    /\ _has_order_id(attempts[1].text)

ReturnedFullImageAtOnce ==
    /\ cpc = "returned"
    /\ Len(attempts) = 1
    /\ Returned = attempts[1] /\ best.crop_name = "Full Image"

\* C11 as stated: if the full-image score (confidence plus the id bonus)
\* meets the threshold and the text contains an order id, find_best_crop
\* returns the full image at once, no crop strategy being recognised.
C11_ScoreMeetsThreshold == FullImageQualifiesByScore => ReturnedFullImageAtOnce

\* C11 amended: if the full-image confidence (without the bonus) meets the
\* threshold and the text contains an order id, find_best_crop returns the
\* full image at once, no crop strategy being recognised; a full image with
\* an id whose confidence is below the threshold does not end the search.
C11_ConfMeetsThreshold ==
    /\ FullImageQualifiesByConf => ReturnedFullImageAtOnce
    /\ (attempts # <<>> /\ _has_order_id(attempts[1].text)
            /\ attempts[1].conf < crop.threshold_confidence
            /\ Len(attempts) = 1)
         => (cpc = "loop" \/ (cpc = "returned" /\ cidx > Len(crop.crop_strategies)))

\* full image read at exactly the threshold with an id: returned at once
\* although three strategies are configured
C11_Witness ==
    /\ cpc = "returned" /\ crop.threshold_confidence = 70
    /\ Len(crop.crop_strategies) = 3
    /\ attempts = <<[strategy |-> "Full Image",
                     text |-> <<<<"order_ids", OrderIdA>>>>, conf |-> 70]>>
    /\ best.crop_name = "Full Image"

Qualifies(a) == _has_order_id(a.text) /\ a.conf >= crop.threshold_confidence

\* C12: as soon as a crop attempt contains an order id and meets the
\* confidence threshold the search stops: no later strategy is recognised
\* and that crop is the returned result.
C12_CropEarlyExit ==
    \A i \in 2..Len(attempts) :
        Qualifies(attempts[i]) =>
            /\ i = Len(attempts)
            /\ cpc = "returned"
            /\ Returned = attempts[i]

NoEarlyExit == cpc = "returned" /\ cidx > Len(crop.crop_strategies)

MaxScore == CHOOSE m \in {AttemptScore(attempts[i]) : i \in 1..Len(attempts)} :
                \A i \in 1..Len(attempts) : AttemptScore(attempts[i]) <= m

FirstWithMaxScore == CHOOSE i \in 1..Len(attempts) :
                        /\ AttemptScore(attempts[i]) = MaxScore
                        /\ \A j \in 1..(i - 1) : AttemptScore(attempts[j]) < MaxScore

\* C13: without an early exit find_best_crop returns the earliest attempt
\* (full image first, then catalog order) among those with the maximal
\* score; an equal later score never replaces it, and the full image is
\* returned when no crop scores strictly higher.
C13_FirstMaxWins ==
    NoEarlyExit =>
        /\ Returned = attempts[FirstWithMaxScore]
        /\ score = MaxScore
        /\ (\A i \in 2..Len(attempts) :
                AttemptScore(attempts[i]) <= AttemptScore(attempts[1]))
             => best.crop_name = "Full Image"

\* two crops tie above the full image: the first of the two is returned
C13_Witness ==
    /\ NoEarlyExit /\ Len(attempts) = 3
    /\ attempts[1].conf = 0 /\ attempts[2].conf = 70 /\ attempts[3].conf = 70
    /\ \A i \in 1..3 : ~_has_order_id(attempts[i].text)
    /\ attempts[2].text # attempts[3].text
    /\ best.crop_name = "No Bottom 20%" /\ best.text = attempts[2].text

\* ------------------------------------------------------------------------
\* SpecConfidence: DataValidator.calculate_confidence on bounded inputs
\* ------------------------------------------------------------------------
MaxItems == 5   \* longest items list

\* a string that does not match ^\d{3}-\d{7}-\d{7}$ (an AI answer can hold one)
OrderIdBad == "12-4567890-1234567"

ItemNames == <<"Item 1", "Item 2", "Item 3", "Item 4", "Item 5", "Item 6", "Item 7">>

ConfOrderIds == {<<>>, <<"">>, <<OrderIdA>>, <<OrderIdBad>>,
                 <<OrderIdA, OrderIdBad>>, <<OrderIdBad, OrderIdA>>}

ConfFieldSets ==
    {[EmptyFields EXCEPT !["order_ids"] = o, !["items"] = SubSeq(ItemNames, 1, n),
                         !["totals"] = t, !["dates"] = d] :
        o \in ConfOrderIds, n \in 0..Min(MaxItems, Len(ItemNames)),
        t \in {<<>>, <<"$59.98">>}, d \in {<<>>, <<"January 5, 2024">>}}

InitConfidence ==
    /\ \E e \in ConfFieldSets, c \in 0..MAX_CONF :
          args = [fn |-> "calculate_confidence", extracted |-> e, ocr_conf |-> c]
    /\ ret = <<>>
    /\ FileIdle /\ BatchIdle /\ ProvIdle /\ CropIdle

ApplyCalculateConfidence ==
    /\ args.fn = "calculate_confidence" /\ ret = <<>>
    /\ ret' = <<calculate_confidence(args.extracted, args.ocr_conf)>>
    /\ UNCHANGED <<args, fileVars, batchVars, provVars, cropVars>>

SpecConfidence == InitConfidence /\ [][ApplyCalculateConfidence]_vars

Max(a, b) == IF a > b THEN a ELSE b

\* the claimed formula in tenths of a point, given whether the id bonus is due
ClaimedConfidence(f, c, id_bonus) ==
    LET raw == 4 * c + (IF id_bonus THEN 250 ELSE 0)
                     + 10 * Min(5 * Len(f["items"]), 20)
                     + (IF f["totals"] # <<>> THEN 100 ELSE 0)
                     + (IF f["dates"] # <<>> THEN 50 ELSE 0)
    IN  Max(0, Min(raw, 1000))

AnyValidId(f)   == \E i \in 1..Len(f["order_ids"]) : f["order_ids"][i] \in ValidOrderIds
FirstValidId(f) == f["order_ids"] # <<>> /\ f["order_ids"][1] \in ValidOrderIds

ConfidenceApplied == args.fn = "calculate_confidence" /\ ret # <<>>

C15_StatusFromMergedFields ==
    (pc = "returned" /\ ~FailsLoad(file)) =>
        /\ extracted = (IF ai_used THEN _merge_results(local_fields, ai_ret[1])
                        ELSE local_fields)
        /\ result["Status"] =
              (IF extracted["order_ids"] # <<>> THEN "Success"
               ELSE IF extracted["items"] # <<>> THEN "Review Required"
               ELSE "Failed")

\* nothing but items found locally at low confidence, the AI supplies the
\* order id: Success although the overall confidence stays below 100
C15_Witness ==
    /\ pc = "returned" /\ ~FailsLoad(file) /\ ai_used
    /\ ocr_conf < config.tesseract_confidence_threshold
    /\ local_fields["order_ids"] = <<>> /\ local_fields["items"] # <<>>
    /\ extracted["order_ids"] # <<>>
    /\ result["Status"] = "Success" /\ result["AI Used"] = "Yes"

\* ------------------------------------------------------------------------
\* SpecDuplicates: the DuplicateDetector functions on a frame of records
\* ------------------------------------------------------------------------
\* pd.DataFrame(results) for files a.png, b.png, ... with the given outcomes
FrameOf(outs) == [i \in 1..Len(outs) |-> ParallelStep(FileName(i), outs[i])[1]]


\* ' + '.join(names)
RECURSIVE JoinNames(_)
JoinNames(names) ==
    IF names = <<>> THEN ""
    ELSE IF Len(names) = 1 THEN names[1]
    ELSE names[1] \o " + " \o JoinNames(Tail(names))

\* the indices of the rows whose key is k, in row order
RECURSIVE RowsWithKey(_, _, _)
RowsWithKey(rows, k, i) ==
    IF i > Len(rows) THEN <<>>
    ELSE (IF first_order_id(rows[i]) = k THEN <<i>> ELSE <<>>)
            \o RowsWithKey(rows, k, i + 1)

\* group['Tesseract Confidence (%)'].idxmax(): the first row with the maximum
idxmax(rows, members) ==
    CHOOSE m \in 1..Len(members) :
        /\ \A n \in 1..Len(members) :
              rows[members[n]]["Tesseract Confidence (%)"]
                  <= rows[members[m]]["Tesseract Confidence (%)"]
        /\ \A n \in 1..(m - 1) :
              rows[members[n]]["Tesseract Confidence (%)"]
                  < rows[members[m]]["Tesseract Confidence (%)"]

\* the keys df.groupby('_first_order_id') can meet, in its sorted order
\* (NaN keys are dropped by groupby)
SortedKeys ==
    << <<>>, <<OrderIdA>>, <<OrderIdA, " ">>, <<OrderIdB>>, <<OrderIdB, " ">>,
       <<OrderIdAI>>, <<OrderIdAI, " ">> >>

\* merge_duplicates: the row one group contributes
MergedRow(rows, members) ==
    IF Len(members) = 1 THEN rows[members[1]]
    ELSE LET best_row == rows[members[idxmax(rows, members)]]
             filenames == JoinNames([n \in 1..Len(members) |-> rows[members[n]]["File Name"]])
         IN  ("is_duplicate" :> TRUE) @@ [best_row EXCEPT !["File Name"] = filenames]

RECURSIVE MergeGroups(_, _)
MergeGroups(rows, k) ==
    IF k > Len(SortedKeys) THEN <<>>
    ELSE LET members == RowsWithKey(rows, SortedKeys[k], 1)
         IN  (IF members = <<>> THEN <<>> ELSE <<MergedRow(rows, members)>>)
                \o MergeGroups(rows, k + 1)

\* DuplicateDetector.merge_duplicates
merge_duplicates(rows) ==
    IF "Order IDs" \notin Columns(rows) THEN rows ELSE MergeGroups(rows, 1)

\* get_duplicate_groups: the key of a row, or NaN when the row is skipped
group_key(row) ==
    LET first == first_order_id(row)     \* str(NaN) is 'nan'
    IN  IF first = NaN \/ first = <<>> THEN NaN ELSE strip(first)

\* DuplicateDetector.get_duplicate_groups: order id -> file names
get_duplicate_groups(rows) ==
    IF "Order IDs" \notin Columns(rows) \/ "File Name" \notin Columns(rows)
    THEN <<>>
    ELSE LET keys == {group_key(rows[i]) : i \in 1..Len(rows)} \ {NaN}
             RECURSIVE Names(_, _)
             Names(k, i) ==
                IF i > Len(rows) THEN <<>>
                ELSE (IF group_key(rows[i]) = k THEN <<rows[i]["File Name"]>> ELSE <<>>)
                        \o Names(k, i + 1)
         IN  [k \in {q \in keys : Len(Names(q, 1)) > 1} |-> Names(k, 1)]

DupFunctions == {"find_duplicates", "get_duplicate_groups", "merge_duplicates"}

InitDuplicates ==
    /\ \E fn \in DupFunctions, n \in 1..MaxFiles :
          \E outs \in [1..n -> Outcomes] :
             args = [fn |-> fn, outcomes |-> outs, df |-> FrameOf(outs)]
    /\ ret = <<>>
    /\ FileIdle /\ BatchIdle /\ ProvIdle /\ CropIdle

ApplyFindDuplicates ==
    /\ args.fn = "find_duplicates" /\ ret = <<>>
    /\ ret' = <<find_duplicates(args.df)>>
    /\ UNCHANGED <<args, fileVars, batchVars, provVars, cropVars>>

ApplyGetDuplicateGroups ==
    /\ args.fn = "get_duplicate_groups" /\ ret = <<>>
    /\ ret' = <<get_duplicate_groups(args.df)>>
    /\ UNCHANGED <<args, fileVars, batchVars, provVars, cropVars>>

ApplyMergeDuplicates ==
    /\ args.fn = "merge_duplicates" /\ ret = <<>>
    /\ ret' = <<merge_duplicates(args.df)>>
    /\ UNCHANGED <<args, fileVars, batchVars, provVars, cropVars>>

NextDuplicates ==
    \/ ApplyFindDuplicates
    \/ ApplyGetDuplicateGroups
    \/ ApplyMergeDuplicates

SpecDuplicates == InitDuplicates /\ [][NextDuplicates]_vars

\* ------------------------------------------------------------------------
\* Claims on the DuplicateDetector (SpecDuplicates)
\* ------------------------------------------------------------------------
HasOrderId(o) == o.kind = "ok" /\ o.order_ids # <<>>

\* the records of the frame whose orderIds list starts with id
GroupOf(id) ==
    {i \in 1..Len(args.outcomes) :
        HasOrderId(args.outcomes[i]) /\ args.outcomes[i].order_ids[1] = id}

\* the first order id written in a row's Order IDs cell ("" when empty)
RowFirstId(row) ==
    LET c == Cell(row, "Order IDs") IN IF c = <<>> THEN "" ELSE c[1]

RowsFor(rows, id) == {j \in 1..Len(rows) : RowFirstId(rows[j]) = id}

MembersInOrder(G) ==
    LET RECURSIVE From(_)
        From(i) == IF i > Len(args.df) THEN <<>>
                   ELSE (IF i \in G THEN <<FileName(i)>> ELSE <<>>) \o From(i + 1)
    IN  From(1)

\* C16: merge_duplicates gives, for each group of two or more records with
\* the same first order id (further ids or not), exactly one record: the
\* member with the highest OCR confidence, its File Name all members' names
\* joined by ' + ', marked as a duplicate; a group of one passes unchanged.
C16_MergeByFirstId ==
    (args.fn = "merge_duplicates" /\ ret # <<>>) =>
        \A id \in {OrderIdA, OrderIdB} :
            LET G   == GroupOf(id)
                out == ret[1]
            IN  /\ Cardinality(G) >= 2 =>
                      /\ Cardinality(RowsFor(out, id)) = 1
                      /\ \A j \in RowsFor(out, id) :
                            /\ \A i \in G : args.outcomes[i].conf
                                                <= out[j]["Tesseract Confidence (%)"]
                            /\ \E i \in G :
                                  out[j]["Order IDs"] = args.df[i]["Order IDs"]
                                  /\ out[j]["Tesseract Confidence (%)"] = args.outcomes[i].conf
                            /\ out[j]["File Name"] = JoinNames(MembersInOrder(G))
                            /\ Cell(out[j], "is_duplicate") = TRUE
                /\ Cardinality(G) = 1 =>
                      /\ Cardinality(RowsFor(out, id)) = 1
                      /\ \A i \in G : \E j \in 1..Len(out) : out[j] = args.df[i]

NoOrderId(i) == ~HasOrderId(args.outcomes[i])

\* C17: a record with no order id is never flagged as a duplicate by
\* find_duplicates, never listed in a group by get_duplicate_groups, and
\* passes through merge_duplicates as its own unchanged record.
C17_NoIdNeverGrouped ==
    (args # NoDict /\ ret # <<>>) =>
        \A i \in 1..Len(args.df) : NoOrderId(i) =>
            /\ args.fn = "find_duplicates" => ret[1][i]["is_duplicate"] = FALSE
            /\ args.fn = "get_duplicate_groups" =>
                    \A k \in DOMAIN ret[1] : FileName(i) \notin Range(ret[1][k])
            /\ args.fn = "merge_duplicates" =>
                    \E j \in 1..Len(ret[1]) : ret[1][j] = args.df[i]

\* C18: with duplicate detection enabled, run() consolidates once, after
\* every file's record has been produced, and the rows written to the
\* output hold a single merged representative for each group of records
\* sharing a first order id.
C18_OutputConsolidated ==
    /\ output # <<>> => (bpc = "done" /\ todo = {})
    /\ (bpc = "done" /\ config.enable_duplicate_detection
            /\ Len(config.file_paths) > 0) =>
          \A id \in {OrderIdA, OrderIdB} :
              RowsFor(results, id) # {} => Cardinality(RowsFor(output, id)) = 1

\* ------------------------------------------------------------------------
\* Claims on the adapters' failure handling (SpecProvider)
\* ------------------------------------------------------------------------
Transient(o) == o \in {"connection_error", "timeout"}

\* attempt k (from 1) was followed by a backoff wait and another attempt
\* is under way or was made
RetriedAfter(k) ==
    /\ Len(sleeps) >= k /\ sleeps[k] = Pow2(k - 1)
    /\ \/ Len(tries) > k
       \/ ppc = "loop" /\ attempt = k /\ attempt < prov.max_retries

GaveUpAtLast(k) ==
    (k = Len(tries) /\ ppc = "done") =>
        /\ k = prov.max_retries
        /\ pret[1] = NoDict
        /\ pret[2] \in FailureStatuses(prov.name)

\* C19 as stated: in every adapter a connection error or timeout on an
\* attempt other than the last is followed by a backoff wait and another
\* attempt; the adapter gives up with a failure status only once
\* max_retries attempts have failed.
C19_TransientRetried ==
    \A k \in 1..Len(tries) : Transient(tries[k]) =>
        /\ k < prov.max_retries => RetriedAfter(k)
        /\ GaveUpAtLast(k)

OllamaConnectionError(k) == prov.name = "ollama" /\ tries[k] = "connection_error"

\* C19 amended: a timeout in every adapter, and a connection error in the
\* OpenAI, Claude and Gemini adapters, on an attempt other than the last is
\* followed by a backoff wait and another attempt, and the adapter gives up
\* on it only at attempt max_retries; the Ollama adapter returns
\* (null, 'Ollama Not Running ...') at once on a connection error, on any
\* attempt, without a wait.
C19_TransientRetriedButOllamaConnection ==
    \A k \in 1..Len(tries) : Transient(tries[k]) =>
        IF OllamaConnectionError(k)
        THEN /\ k = Len(tries) /\ ppc = "done"
             /\ pret = <<NoDict, OllamaNotRunning>>
             /\ Len(sleeps) = k - 1
        ELSE /\ k < prov.max_retries => RetriedAfter(k)
             /\ GaveUpAtLast(k)

\* OpenAI, three attempts: connection error, timeout, timeout; waits of 1 s
\* and 2 s, then the failure status
C19_Witness ==
    /\ ppc = "done" /\ prov = [name |-> "openai", max_retries |-> 3]
    /\ tries = <<"connection_error", "timeout", "timeout">>
    /\ sleeps = <<1, 2>> /\ requests = 3
    /\ pret = <<NoDict, ErrorStatus("openai")>>

AuthFailure(o) == o \in {"auth_authentication", "auth_api_key", "auth_other"}

\* C20: in the OpenAI, Claude and Gemini adapters an authentication failure
\* on any attempt makes extract return (null, the auth status) at once, with
\* no further request and no backoff wait; the auth status differs from
\* every other failure status.
C20_AuthFailsFast ==
    /\ prov # NoDict =>
          AuthStatus(prov.name) \notin
              {ParseFailedStatus(prov.name), ErrorStatus(prov.name),
               AfterRetriesStatus(prov.name), SuccessStatus(prov.name)}
    /\ \A k \in 1..Len(tries) : AuthFailure(tries[k]) =>
          /\ k = Len(tries) /\ ppc = "done"
          /\ requests = k
          /\ Len(sleeps) = k - 1
          /\ pret = <<NoDict, AuthStatus(prov.name)>>

\* replies that are no JSON object once the fence is off: unparsable text,
\* or valid JSON that is an array, a string, a number or null
NotAnObject(c) ==
    /\ c.fence # "single_line"
    /\ c.body \in {"prose", "array", "empty_array", "string", "empty_string",
                   "number", "null"}

ParseFailedAtOnce(k) ==
    /\ k = Len(tries) /\ ppc = "done"
    /\ Len(sleeps) = k - 1
    /\ pret = <<NoDict, ParseFailedStatus(prov.name)>>

\* C21: a reply that, code fences stripped, is no parsable JSON object
\* (unparsable text, or valid JSON that is an array or a string) makes
\* extract return (null, '<Vendor> JSON Parse Failed') without retrying; a
\* JSON object wrapped in code fences is parsed successfully.
C21_MalformedReplyParseFailed ==
    /\ \A c \in Responses : NotAnObject(c) =>
          \A k \in 1..Len(tries) : tries[k] = ResponseOutcome(c) => ParseFailedAtOnce(k)
    /\ Succeeds(ResponseOutcome([fence |-> "lines", body |-> "object"]))
    /\ \A k \in 1..Len(tries) : Succeeds(tries[k]) =>
          /\ k = Len(tries) /\ ppc = "done"
          /\ pret[1] # NoDict /\ pret[2] = SuccessStatus(prov.name)

\* ------------------------------------------------------------------------
\* Claims on the constructor and the use of the adapter (Spec)
\* ------------------------------------------------------------------------
StartupFails ==
    \/ ~env.tesseract_ok
    \/ config.ai_mode = "always" /\ ~env.provider_ok

\* C22: if the recognition engine is unavailable, or ai_mode is 'always'
\* and the provider cannot be initialised, constructing the extractor
\* raises before any file is processed: no collaborator is called for a
\* file and no record is produced.
C22_StartupErrorAborts ==
    (pc # "new" /\ StartupFails) =>
        /\ pc = "startup_error"
        /\ trace = <<>> /\ file = NoDict /\ result = NoDict
        /\ ai_processor = None

\* tesseract is there, the provider is not, and the mode demands it
C22_Witness ==
    /\ pc = "startup_error" /\ env.tesseract_ok /\ ~env.provider_ok
    /\ config.ai_mode = "always" /\ trace = <<>> /\ result = NoDict

\* ------------------------------------------------------------------------
\* Claims on the field sets (Spec)
\* ------------------------------------------------------------------------
IsList(x) == DOMAIN x = 1..Len(x)

EightLists(f) == DOMAIN f = FieldKeys /\ \A k \in FieldKeys : IsList(f[k])

\* C23: every field set in the pipeline has exactly the eight keys, each a
\* list: the result of extract_all, the normalised AI reply, and the merge
\* of the two.
C23_EightKeysAlways ==
    /\ local_fields # NoDict => EightLists(local_fields)
    /\ ai_ret[1] # NoDict => EightLists(ai_ret[1])
    /\ extracted # NoDict => EightLists(extracted)

\* the reply named an order id and nothing else; local text gave an item
C23_Witness ==
    /\ pc = "returned" /\ ai_used
    /\ ai_ret[1] = [EmptyFields EXCEPT !["order_ids"] = <<OrderIdAI>>]
    /\ local_fields["items"] # <<>> /\ local_fields["order_ids"] = <<>>
    /\ extracted = [local_fields EXCEPT !["order_ids"] = <<OrderIdAI>>]

\* C24: the field set extracted from a text is determined by the text alone,
\* the order of the order ids included: no other field set can come out of
\* the same text.
C24_ExtractAllDeterminedByText ==
    local_fields # NoDict => \A fs \in extract_all(ocr_text) : fs = local_fields

\* ------------------------------------------------------------------------
\* SpecOcr: OCREngine._ocr_with_confidence over the engine's outputs
\* ------------------------------------------------------------------------
InitOcr ==
    /\ \E out \in EngineOutputs : args = [fn |-> "_ocr_with_confidence", out |-> out]
    /\ ret = <<>>
    /\ FileIdle /\ BatchIdle /\ ProvIdle /\ CropIdle

ApplyOcrWithConfidence ==
    /\ args.fn = "_ocr_with_confidence" /\ ret = <<>>
    /\ ret' = <<_ocr_with_confidence(args.out)>>
    /\ UNCHANGED <<args, fileVars, batchVars, provVars, cropVars>>

SpecOcr == InitOcr /\ [][ApplyOcrWithConfidence]_vars

\* the confidences that are not the unknown sentinel
RECURSIVE KnownConfidences(_)
KnownConfidences(conf) ==
    IF conf = <<>> THEN <<>>
    ELSE (IF Head(conf).v # -1 THEN <<Head(conf).v>> ELSE <<>>)
            \o KnownConfidences(Tail(conf))

RECURSIVE KnownSum(_)
KnownSum(xs) == IF xs = <<>> THEN 0 ELSE Head(xs) + KnownSum(Tail(xs))

\* two means, each a sum and a count, are the same number
SameMean(a, b) == a.sum * b.n = b.sum * a.n

OcrApplied == args.fn = "_ocr_with_confidence" /\ ret # <<>>

\* C25: the confidence returned is the mean of the token confidences other
\* than the unknown sentinel -1, and 0 when no such token remains.
C25_MeanExcludesUnknown ==
    (OcrApplied /\ args.out.raises = "none") =>
        LET known == KnownConfidences(args.out.conf)
        IN  IF known = <<>> THEN ret[1].conf.sum = 0
            ELSE SameMean(ret[1].conf, [sum |-> KnownSum(known), n |-> Len(known)])

\* ------------------------------------------------------------------------
\* Claims on a recognition engine that throws (Spec)
\* ------------------------------------------------------------------------
EngineThrew == \E i \in 1..Len(trace) : trace[i] = "OCR error"

\* C26: when the engine throws during recognition, the call yields empty
\* text and confidence 0, the exception does not leave the recognition
\* stage, and the file gets a normal record whose status is derived from the
\* fields (Failed when none is found).
C26_EngineErrorAbsorbed ==
    EngineThrew =>
        /\ ocr_text = <<>> /\ ocr_conf = 0
        /\ pc = "raised" => TempCreated
        /\ pc \in {"extracted", "decided"} => extracted = EmptyFields
        /\ pc = "returned" =>
              /\ result["Status"] = StatusOf(extracted)
              /\ result["Tesseract Confidence (%)"] = 0
              /\ extracted = EmptyFields => result["Status"] = "Failed"

\* the engine threw, no AI was used, and the record says Failed
C26_Witness ==
    /\ EngineThrew /\ pc = "returned" /\ ~ai_used
    /\ result["Status"] = "Failed"

\* ------------------------------------------------------------------------
\* SpecItems: DataExtractor.extract_items over texts given as characters
\* ------------------------------------------------------------------------
MaxItemLines == 2    \* lines of a text handed to extract_items

\* the lines a recognised text is made of, as characters
ItemLines ==
    {<<"S", "t", "a", "i", "n", "l", "e", "s", "s", " ", "S", "t", "e", "e", "l">>,
     <<"S", "t", "a", "i", "n", "l", "e", "s", "s", " ", "S", "t", "e", "e", "l", " ", "W", "i", "d", "g", "e", "t">>,
     <<"S", "t", "a", "i", "n", "l", "e", "s", "s", " ", "S", "t", "e", "e">>,
     <<"S", "t", "e", "e", "l", " ", "W", "i", "d", "g", "e", "t", " ", "$", "1", "2", ".", "5", "0">>,
     <<"S", "t", "a", "i", "n", "l", "e", "s", "s", " ", "S", "t", "e", "e", "l", " ", "$", "1", ",", "2", "9", "9", ".", "0", "0">>,
     <<"s", "t", "a", "i", "n", "l", "e", "s", "s", " ", "s", "t", "e", "e", "l", " ", "w", "i", "d", "g", "e", "t">>,
     <<"S", "t", "a", "i", "n", "l", "e", "s", "s", " ", "S", "t", "e", "e", "l", " ", "G", "i", "f", "t", " ", "B", "o", "x">>,
     <<" ", " ", "C", "o", "p", "p", "e", "r", " ", "K", "e", "t", "t", "l", "e", " ", "2", " ", "Q", "u", "a", "r", "t", " ">>,
     <<"1", "1", "1", "-", "1", "1", "1", "1", "1", "1", "1", "-", "1", "1", "1", "1", "1", "1", "1", " ", "C", "o", "p", "p", "e", "r", " ", "K", "e", "t", "t", "l", "e", " ", "2", " ", "Q", "u", "a", "r", "t">>,
     <<>>}

skip_keywords ==
    {<<"t", "o", "t", "a", "l">>,
     <<"s", "h", "i", "p", "p", "i", "n", "g">>,
     <<"t", "a", "x">>,
     <<"q", "t", "y">>,
     <<"q", "u", "a", "n", "t", "i", "t", "y">>,
     <<"s", "o", "l", "d", " ", "b", "y">>,
     <<"o", "r", "d", "e", "r">>,
     <<"d", "e", "l", "i", "v", "e", "r", "y">>,
     <<"a", "r", "r", "i", "v", "e", "s">>,
     <<"r", "e", "t", "u", "r", "n">>,
     <<"r", "e", "f", "u", "n", "d">>,
     <<"c", "u", "s", "t", "o", "m", "e", "r">>,
     <<"a", "c", "c", "o", "u", "n", "t">>,
     <<"p", "a", "y", "m", "e", "n", "t">>,
     <<"c", "r", "e", "d", "i", "t">>,
     <<"g", "i", "f", "t">>}

\* DataExtractor.extract_items
extract_items(text) ==
    LET Digits == {"0", "1", "2", "3", "4", "5", "6", "7", "8", "9"}
        UpperCase ==
            <<"A", "B", "C", "D", "E", "F", "G", "H", "I", "J", "K", "L", "M",
              "N", "O", "P", "Q", "R", "S", "T", "U", "V", "W", "X", "Y", "Z">>
        LowerCase ==
            <<"a", "b", "c", "d", "e", "f", "g", "h", "i", "j", "k", "l", "m",
              "n", "o", "p", "q", "r", "s", "t", "u", "v", "w", "x", "y", "z">>
        \* str.isupper() of one character
        isupper(c) == c \in Range(UpperCase)
        \* str.lower()
        lower_case(str) ==
            [i \in 1..Len(str) |->
                IF isupper(str[i])
                THEN LowerCase[CHOOSE k \in 1..Len(UpperCase) : UpperCase[k] = str[i]]
                ELSE str[i]]
        \* keyword in clean.lower()
        Contains(str, sub) ==
            \E i \in 1..(Len(str) - Len(sub) + 1) : SubSeq(str, i, i + Len(sub) - 1) = sub
        \* the first index at or after i whose character is not in S
        RECURSIVE SkipWhile(_, _, _)
        SkipWhile(str, i, S) ==
            IF i <= Len(str) /\ str[i] \in S THEN SkipWhile(str, i + 1, S) ELSE i
        \* \$[\d,]+\.?\d* matches at i
        PriceAt(str, i) ==
            /\ str[i] = "$"
            /\ i + 1 <= Len(str)
            /\ str[i + 1] \in Digits \cup {","}
        \* the index after that match
        PriceEnd(str, i) ==
            LET j == SkipWhile(str, i + 1, Digits \cup {","})
                k == IF j <= Len(str) /\ str[j] = "." THEN j + 1 ELSE j
            IN  SkipWhile(str, k, Digits)
        \* \d{3}-\d{7}.* matches at i (and runs to the end of the line)
        OrderIdAt(str, i) ==
            /\ i + 10 <= Len(str)
            /\ \A k \in 0..2 : str[i + k] \in Digits
            /\ str[i + 3] = "-"
            /\ \A k \in 4..10 : str[i + k] \in Digits
        \* re.sub(r'\$[\d,]+\.?\d*|\d{3}-\d{7}.*', '', line), from index i on
        RECURSIVE RemovePricesAndIds(_, _)
        RemovePricesAndIds(str, i) ==
            IF i > Len(str) THEN <<>>
            ELSE IF PriceAt(str, i) THEN RemovePricesAndIds(str, PriceEnd(str, i))
            ELSE IF OrderIdAt(str, i) THEN <<>>
            ELSE <<str[i]>> \o RemovePricesAndIds(str, i + 1)
        \* clean = re.sub(...).strip()
        Clean(line) == strip(RemovePricesAndIds(line, 1))
        \* lines = [line.strip() for line in text.split('\n') if line.strip()]
        RECURSIVE StrippedLines(_)
        StrippedLines(t) ==
            IF t = <<>> THEN <<>>
            ELSE (IF strip(Head(t)) # <<>> THEN <<strip(Head(t))>> ELSE <<>>)
                    \o StrippedLines(Tail(t))
        \* the tests of the loop body on one cleaned line
        IsItem(clean) ==
            /\ ~ (Len(clean) < 15)
            /\ ~ \E keyword \in skip_keywords : Contains(lower_case(clean), keyword)
            /\ clean # <<>> /\ isupper(clean[1])
        RECURSIVE Items(_)
        Items(lines) ==
            IF lines = <<>> THEN <<>>
            ELSE (IF IsItem(Clean(Head(lines))) THEN <<Clean(Head(lines))>> ELSE <<>>)
                    \o Items(Tail(lines))
    IN  \* remove duplicates while preserving order
        unique(Items(StrippedLines(text)), {})

InitItems ==
    /\ \E text \in SeqsOver(ItemLines, MaxItemLines) :
          args = [fn |-> "extract_items", text |-> text]
    /\ ret = <<>>
    /\ FileIdle /\ BatchIdle /\ ProvIdle /\ CropIdle

ApplyExtractItems ==
    /\ args.fn = "extract_items" /\ ret = <<>>
    /\ ret' = <<extract_items(args.text)>>
    /\ UNCHANGED <<args, fileVars, batchVars, provVars, cropVars>>

SpecItems == InitItems /\ [][ApplyExtractItems]_vars

\* C27: every item returned is longer than 15 characters: a line whose
\* cleaned text has 15 characters or fewer is never returned.
C27_ItemsLongerThan15 ==
    (args.fn = "extract_items" /\ ret # <<>>) =>
        \A i \in 1..Len(ret[1]) : Len(ret[1][i]) > 15

\* ------------------------------------------------------------------------
\* Claims on what merge_duplicates keeps (SpecDuplicates)
\* ------------------------------------------------------------------------
\* the file names joined in a File Name cell
NamesIn(cell) ==
    LET Gs == {G \in SUBSET (1..Len(args.df)) : JoinNames(MembersInOrder(G)) = cell}
    IN  UNION {Range(MembersInOrder(G)) : G \in Gs}

\* C28: merge_duplicates loses no record: the file name of every input
\* record, one without an Order IDs value included, appears in the File Name
\* of exactly one output record.
C28_MergeLosesNoRecord ==
    (args # NoDict /\ args.fn = "merge_duplicates" /\ ret # <<>>) =>
        \A i \in 1..Len(args.df) :
            Cardinality({j \in 1..Len(ret[1]) :
                            FileName(i) \in NamesIn(ret[1][j]["File Name"])}) = 1

\* ------------------------------------------------------------------------
\* Claims on when the adapter is called (Spec)
\* ------------------------------------------------------------------------
ProviderMissing == env.tesseract_ok /\ ~env.provider_ok

\* C29: in hybrid mode with a provider that cannot be initialised the
\* constructor succeeds, files are processed locally only: no temporary
\* image, no adapter call, no merge, and the record of a processed file says
\* AI Used 'No' with an empty AI Status, also when the policy chose AI.
C29_HybridWithoutProviderIsLocal ==
    (pc # "new" /\ config.ai_mode = "hybrid" /\ ProviderMissing) =>
        /\ pc \notin {"startup_error", "temp_saved", "ai_returned", "ai_raising", "ai_done"}
        /\ ai_processor = None
        /\ ~AdapterCalled /\ ~TempCreated /\ ~ai_used
        /\ extracted = local_fields
        /\ (pc = "returned" /\ "AI Used" \in DOMAIN result) =>
              /\ result["AI Used"] = "No"
              /\ result["AI Status"] = ""
              /\ result["AI Provider"] = ""

\* the policy chose AI for the file and the record still says No
C29_Witness ==
    /\ config.ai_mode = "hybrid" /\ ProviderMissing
    /\ pc = "returned" /\ use_ai
    /\ result["AI Used"] = "No" /\ result["AI Status"] = ""

\* the positions of a call in the trace
Calls(name) == {i \in 1..Len(trace) : trace[i] = name}

CalledBefore(name, i) == \E k \in Calls(name) : k < i

\* C30: for one file the adapter's extract is called at most once, only
\* after the crop search and the local extraction, and only when the policy
\* returned true; in mode 'never' there is no provider and no call; in mode
\* 'always' every loaded file that gets its record had the adapter called,
\* and processing ends without the call only by an exception raised while
\* the temporary image is written.
C30_AdapterCalledOnceWhenChosen ==
    /\ Cardinality(Calls("extract")) <= 1
    /\ \A i \in Calls("extract") :
          /\ CalledBefore("find_best_crop", i)
          /\ CalledBefore("extract_all", i)
          /\ CalledBefore("_should_use_ai", i)
          /\ use_ai
    /\ config.ai_mode = "never" => (ai_processor = None /\ ~AdapterCalled)
    /\ (config.ai_mode = "always" /\ file # NoDict /\ ~FailsLoad(file)) =>
          /\ pc = "returned" => AdapterCalled
          /\ (pc = "raised" /\ ~AdapterCalled) =>
                trace[Len(trace)] = "NamedTemporaryFile"

\* mode 'always': a loaded file whose local text already gave an order id
\* and an item was still sent to the adapter, once
C30_Witness ==
    /\ config.ai_mode = "always" /\ pc = "returned"
    /\ Cardinality(Calls("extract")) = 1
    /\ local_fields["order_ids"] # <<>> /\ local_fields["items"] # <<>>
    /\ ocr_conf >= config.tesseract_confidence_threshold

====
